---------------------------- MODULE Spec2Model ----------------------------
(***************************************************************************)
(* Verification model of the sanctum prayer-slide tools.                   *)
(*                                                                         *)
(* Texts are TLA+ strings; Python's string operations (split, strip,       *)
(* lower, join, slicing, `in`) and the regular expressions the code uses   *)
(* are modelled by operators that compute what the Python computes.        *)
(***************************************************************************)
EXTENDS Integers, Sequences, FiniteSets, TLC

(***************************************************************************)
(* Python string primitives.                                               *)
(***************************************************************************)

\* s[i] of Python (1-based here): the one-character string at position i;
\* the empty string where s has no character
CharAt(s, i) == IF i >= 1 /\ i <= Len(s) THEN SubSeq(s, i, i) ELSE ""

Min(S) == CHOOSE x \in S : \A y \in S : x <= y

Max(S) == CHOOSE x \in S : \A y \in S : x >= y

UpperLetters == "ABCDEFGHIJKLMNOPQRSTUVWXYZ"

LowerLetters == "abcdefghijklmnopqrstuvwxyz"

Digits == "0123456789"

\* position of the one-character string c in the alphabet string abc, or 0
IndexIn(abc, c) ==
    LET hits == {k \in 1..Len(abc) : CharAt(abc, k) = c}
    IN  IF hits = {} THEN 0 ELSE Min(hits)

UpperSet == {CharAt(UpperLetters, k) : k \in 1..Len(UpperLetters)}

LowerSet == {CharAt(LowerLetters, k) : k \in 1..Len(LowerLetters)}

DigitSet == {CharAt(Digits, k) : k \in 1..Len(Digits)}

\* str.lower() on one character
LowerChar(c) ==
    IF c \in UpperSet THEN CharAt(LowerLetters, IndexIn(UpperLetters, c)) ELSE c

\* str.upper() on one character
UpperChar(c) ==
    IF c \in LowerSet THEN CharAt(UpperLetters, IndexIn(LowerLetters, c)) ELSE c

\* [A-Za-z], and [A-Z] or [a-z] under re.IGNORECASE
IsLetter(c) == c \in UpperSet \/ c \in LowerSet

\* \d
IsDigit(c) == c \in DigitSet

\* the characters `\s` and str.strip() treat as whitespace
IsSpace(c) == c \in {" ", "\t", "\n", "\r"}

\* str.lower(): halving keeps the recursion shallow on long texts
RECURSIVE Lower(_)
Lower(s) ==
    IF Len(s) = 0 THEN ""
    ELSE IF Len(s) = 1 THEN LowerChar(s)
    ELSE LET h == Len(s) \div 2
         IN  Lower(SubSeq(s, 1, h)) \o Lower(SubSeq(s, h + 1, Len(s)))

\* str.upper()
RECURSIVE Upper(_)
Upper(s) ==
    IF Len(s) = 0 THEN ""
    ELSE IF Len(s) = 1 THEN UpperChar(s)
    ELSE LET h == Len(s) \div 2
         IN  Upper(SubSeq(s, 1, h)) \o Upper(SubSeq(s, h + 1, Len(s)))

\* str.strip(): drop leading and trailing whitespace
Strip(s) ==
    LET keep == {i \in 1..Len(s) : ~IsSpace(CharAt(s, i))}
    IN  IF keep = {} THEN "" ELSE SubSeq(s, Min(keep), Max(keep))

\* the literal pat occurs in s at position i
OccursAt(pat, s, i) ==
    /\ i >= 1
    /\ i + Len(pat) - 1 <= Len(s)
    /\ SubSeq(s, i, i + Len(pat) - 1) = pat

\* `pat in s`
Contains(s, pat) == \E i \in 1..(Len(s) - Len(pat) + 1) : OccursAt(pat, s, i)

\* str.endswith / str.startswith
EndsWith(s, suf) == Len(suf) <= Len(s) /\ SubSeq(s, Len(s) - Len(suf) + 1, Len(s)) = suf

StartsWith(s, pre) == OccursAt(pre, s, 1)

\* s[a:b] of Python on a string, a and b 0-based and already clamped by the caller
Slice(s, a, b) ==
    LET lo == IF a < 0 THEN 0 ELSE a
        hi == IF b > Len(s) THEN Len(s) ELSE b
    IN  IF hi <= lo THEN "" ELSE SubSeq(s, lo + 1, hi)

\* sep.join(parts)
RECURSIVE Join(_, _)
Join(sep, parts) ==
    IF Len(parts) = 0 THEN ""
    ELSE IF Len(parts) = 1 THEN parts[1]
    ELSE LET h == Len(parts) \div 2
         IN  Join(sep, SubSeq(parts, 1, h)) \o sep \o Join(sep, SubSeq(parts, h + 1, Len(parts)))

\* text.split(sep) for a non-empty literal separator: the pieces between
\* successive non-overlapping occurrences, empty pieces kept
Split(s, sep) ==
    LET RECURSIVE Cuts(_, _)
        \* the start positions of the separators taken, scanning from position from
        Cuts(from, acc) ==
            LET hits == {i \in from..(Len(s) - Len(sep) + 1) : OccursAt(sep, s, i)}
            IN  IF hits = {} THEN acc
                ELSE Cuts(Min(hits) + Len(sep), Append(acc, Min(hits)))
        cuts == Cuts(1, <<>>)
        n    == Len(cuts)
    IN  [k \in 1..(n + 1) |->
            SubSeq(s,
                   IF k = 1 THEN 1 ELSE cuts[k - 1] + Len(sep),
                   IF k = n + 1 THEN Len(s) ELSE cuts[k] - 1)]

(***************************************************************************)
(* Regular-expression primitives.  A greedy run of one character class     *)
(* followed by a different class cannot backtrack, so the end of a run is  *)
(* the end of the maximal run.                                             *)
(***************************************************************************)

\* the last position of the maximal run of characters satisfying P that
\* starts at position i; i - 1 when the run is empty
RunEnd(s, i, P(_)) ==
    (CHOOSE j \in i..(Len(s) + 1) :
        /\ j = Len(s) + 1 \/ ~P(CharAt(s, j))
        /\ \A k \in i..(j - 1) : P(CharAt(s, k))) - 1

\* the position of the first occurrence of the character c at or after
\* position from; Len(s) + 1 when there is none
NextChar(s, from, c) == Min({j \in from..Len(s) : CharAt(s, j) = c} \cup {Len(s) + 1})

\* [:\s]
IsSep(c) == c = ":" \/ IsSpace(c)

\* a position of s where a maximal run of letters starts
IsWordStart(s, i) ==
    /\ IsLetter(CharAt(s, i))
    /\ i = 1 \/ ~IsLetter(CharAt(s, i - 1))

\* re.sub(r'\s+', ' ', s): every run of whitespace becomes one space
RECURSIVE CollapseRange(_, _, _)
CollapseRange(s, lo, hi) ==
    IF hi < lo THEN ""
    ELSE IF lo = hi
         THEN IF ~IsSpace(CharAt(s, lo)) THEN CharAt(s, lo)
              ELSE IF lo > 1 /\ IsSpace(CharAt(s, lo - 1)) THEN "" ELSE " "
    ELSE LET h == (lo + hi) \div 2
         IN  CollapseRange(s, lo, h) \o CollapseRange(s, h + 1, hi)

CollapseSpaces(s) == CollapseRange(s, 1, Len(s))

\* str(i) for a natural number
RECURSIVE Str(_)
Str(i) == IF i < 10 THEN CharAt(Digits, i + 1) ELSE Str(i \div 10) \o CharAt(Digits, (i % 10) + 1)

\* s.strip('"')
StripQuotes(s) ==
    LET keep == {i \in 1..Len(s) : CharAt(s, i) # "\""}
    IN  IF keep = {} THEN "" ELSE SubSeq(s, Min(keep), Max(keep))

\* re.split(r'[.!?]+', s): the pieces between maximal runs of . ! ?
IsStop(c) == c \in {".", "!", "?"}

NotStop(c) == ~IsStop(c)

RECURSIVE SplitStops(_, _)
SplitStops(s, from) ==
    LET e == RunEnd(s, from, NotStop)
    IN  IF e = Len(s) THEN <<SubSeq(s, from, e)>>
        ELSE <<SubSeq(s, from, e)>> \o SplitStops(s, RunEnd(s, e + 1, IsStop) + 1)

(***************************************************************************)
(* Scripture citations (app_v2.py).                                        *)
(***************************************************************************)

\* where a match of ([A-Z][a-z]+\s+\d+[:\s]+\d+), ignoring case, that starts
\* at position i ends; 0 when there is none
SimpleCitationEnd(s, i) ==
    LET e1 == RunEnd(s, i, IsLetter)
        e2 == RunEnd(s, e1 + 1, IsSpace)
        e3 == RunEnd(s, e2 + 1, IsDigit)
        e4 == RunEnd(s, e3 + 1, IsSep)
        e5 == RunEnd(s, e4 + 1, IsDigit)
    IN  IF e1 >= i + 1 /\ e2 > e1 /\ e3 > e2 /\ e4 > e3 /\ e5 > e4 THEN e5 ELSE 0

\* where a match of ([A-Z][a-z]+\s+chapter\s+\d+\s+verse\s+\d+), ignoring
\* case, that starts at position i ends; 0 when there is none
FullCitationEnd(s, i) ==
    LET ls == Lower(s)
        e1 == RunEnd(s, i, IsLetter)
        e2 == RunEnd(s, e1 + 1, IsSpace)
        e3 == e2 + 7
        e4 == RunEnd(s, e3 + 1, IsSpace)
        e5 == RunEnd(s, e4 + 1, IsDigit)
        e6 == RunEnd(s, e5 + 1, IsSpace)
        e7 == e6 + 5
        e8 == RunEnd(s, e7 + 1, IsSpace)
        e9 == RunEnd(s, e8 + 1, IsDigit)
    IN  IF /\ e1 >= i + 1 /\ e2 > e1
           /\ OccursAt("chapter", ls, e2 + 1)
           /\ e4 > e3 /\ e5 > e4 /\ e6 > e5
           /\ OccursAt("verse", ls, e6 + 1)
           /\ e8 > e7 /\ e9 > e8
        THEN e9 ELSE 0

NoMatch == [from |-> 0, to |-> 0]

\* re.search of the simple citation pattern: the leftmost match, which
\* starts where a run of letters starts
SearchSimpleCitation(s) ==
    LET starts == {i \in 1..Len(s) : IsWordStart(s, i) /\ SimpleCitationEnd(s, i) > 0}
    IN  IF starts = {} THEN NoMatch
        ELSE [from |-> Min(starts), to |-> SimpleCitationEnd(s, Min(starts))]

\* re.search of the chapter-and-verse citation pattern
SearchFullCitation(s) ==
    LET ls == Lower(s)
        starts == {i \in 1..Len(s) :
                      /\ IsWordStart(s, i)
                      /\ OccursAt("chapter", ls, RunEnd(s, RunEnd(s, i, IsLetter) + 1, IsSpace) + 1)
                      /\ FullCitationEnd(s, i) > 0}
    IN  IF starts = {} THEN NoMatch
        ELSE [from |-> Min(starts), to |-> FullCitationEnd(s, Min(starts))]

NotQuote(c) == c # "\""

\* group 1 of Scripture:?\s*"?([^"]+)"? matched, ignoring case, at an
\* occurrence of "scripture" at position i: the regex engine prefers taking
\* the colon, then the most spaces, then the quote; NoMatch when no choice
\* leaves a character for the group
MarkedScriptureAt(s, i) ==
    LET p0 == i + 9
        colons == IF CharAt(s, p0) = ":" THEN {1, 0} ELSE {0}
        tries == {t \in [colon : colons, spaces : 0..Len(s), quote : {0, 1}] :
                     LET p1 == p0 + t.colon
                         p2 == p1 + t.spaces
                         p3 == p2 + t.quote
                     IN  /\ t.spaces <= RunEnd(s, p1, IsSpace) - p1 + 1
                         /\ t.quote = 1 => CharAt(s, p2) = "\""
                         /\ p3 <= Len(s)
                         /\ NotQuote(CharAt(s, p3))}
        Before(a, b) ==
            \/ a.colon > b.colon
            \/ a.colon = b.colon /\ a.spaces > b.spaces
            \/ a.colon = b.colon /\ a.spaces = b.spaces /\ a.quote >= b.quote
    IN  IF tries = {} THEN NoMatch
        ELSE LET t == CHOOSE a \in tries : \A b \in tries : Before(a, b)
                 p3 == p0 + t.colon + t.spaces + t.quote
             IN  [from |-> p3, to |-> RunEnd(s, p3, NotQuote)]

\* re.search of the explicit scripture marker: group 1 of the leftmost match
SearchMarkedScripture(s) ==
    LET ls == Lower(s)
        starts == {i \in 1..Len(s) :
                      OccursAt("scripture", ls, i) /\ MarkedScriptureAt(s, i) # NoMatch}
    IN  IF starts = {} THEN NoMatch ELSE MarkedScriptureAt(s, Min(starts))

\* the abbreviations table of format_scripture_reference
abbreviations ==
    { <<"genesis", "GEN.">>, <<"exodus", "EXO.">>, <<"leviticus", "LEV.">>,
      <<"numbers", "NUM.">>, <<"deuteronomy", "DEU.">>, <<"psalms", "PSA.">>,
      <<"psalm", "PSA.">>, <<"proverbs", "PRO.">>, <<"matthew", "MAT.">>,
      <<"mark", "MAR.">>, <<"luke", "LUK.">>, <<"john", "JOH.">>, <<"acts", "ACT.">>,
      <<"romans", "ROM.">>, <<"corinthians", "COR.">>, <<"galatians", "GAL.">>,
      <<"ephesians", "EPH.">>, <<"philippians", "PHI.">>, <<"colossians", "COL.">>,
      <<"thessalonians", "THE.">>, <<"timothy", "TIM.">>, <<"titus", "TIT.">>,
      <<"hebrews", "HEB.">>, <<"james", "JAM.">>, <<"peter", "PET.">>,
      <<"revelation", "REV.">>, <<"zechariah", "ZEC.">> }

\* abbreviations.get(book, book.upper()[:3] + '.')
Abbreviate(book) ==
    IF \E e \in abbreviations : e[1] = book
    THEN (CHOOSE e \in abbreviations : e[1] = book)[2]
    ELSE Slice(Upper(book), 0, 3) \o "."

\* an optional (?:word\s+) after position a: the position its match ends
\* at, or a when the word or its whitespace is absent
SkipWord(s, a, word) ==
    IF OccursAt(word, Lower(s), a + 1) /\ RunEnd(s, a + Len(word) + 1, IsSpace) > a + Len(word)
    THEN RunEnd(s, a + Len(word) + 1, IsSpace)
    ELSE a

\* where ([A-Za-z]+(?:\s+[A-Za-z]+)?) ends: after the second word when a
\* second word follows the first
BookEnd(w1, g1, w2) == IF w1 >= 1 /\ g1 > w1 /\ w2 > g1 THEN w2 ELSE w1

\* f"{abbrev} {chapter}:{verse}" when the reference matches, the upper-cased
\* text when it does not; the chapter is s[c0+1..c1], the verse s[v0+1..v1]
Formatted(s, bookEnd, c0, c1, d, v0, v1) ==
    IF bookEnd >= 1 /\ c1 > c0 /\ d > c1 /\ v1 > v0
    THEN Abbreviate(Lower(SubSeq(s, 1, bookEnd))) \o " " \o SubSeq(s, c0 + 1, c1)
            \o ":" \o SubSeq(s, v0 + 1, v1)
    ELSE Upper(s)

\* the match of ([A-Za-z]+(?:\s+[A-Za-z]+)?)\s*(?:chapter\s+)?(\d+)[\s:]+(?:verse\s+)?(\d+)
\* at the start of the cleaned reference s.  The book is the first run of
\* letters and, when a second word follows it, that word too (exact unless a
\* book word ends in the letters "chapter").
FormatClean(s) ==
    LET w1 == RunEnd(s, 1, IsLetter)
        g1 == RunEnd(s, w1 + 1, IsSpace)
        w2 == RunEnd(s, g1 + 1, IsLetter)
        bookEnd == BookEnd(w1, g1, w2)
        c0 == SkipWord(s, RunEnd(s, bookEnd + 1, IsSpace), "chapter")
        c1 == RunEnd(s, c0 + 1, IsDigit)
        d  == RunEnd(s, c1 + 1, IsSep)
        v0 == SkipWord(s, d, "verse")
        v1 == RunEnd(s, v0 + 1, IsDigit)
    IN  Formatted(s, bookEnd, c0, c1, d, v0, v1)

\* format_scripture_reference: the slide form of a citation, e.g. PSA. 115:1
format_scripture_reference(scripture) == FormatClean(Strip(CollapseSpaces(scripture)))

(***************************************************************************)
(* extract_prayers_structured (app_v2.py): helpers.                        *)
(***************************************************************************)

\* where a match of (?:prayer\s*(?:point)?\s*\d*[:.]?\s*|let\s+us\s+pray)
\* that starts at position i of the lower-cased text lt ends; 0 when there is
\* none.  Every part after "prayer" is optional and greedy.
MarkerEnd(lt, i) ==
    IF OccursAt("prayer", lt, i)
    THEN LET a == RunEnd(lt, i + 6, IsSpace)
             b == IF OccursAt("point", lt, a + 1) THEN a + 5 ELSE a
             c == RunEnd(lt, b + 1, IsSpace)
             d == RunEnd(lt, c + 1, IsDigit)
             e == IF CharAt(lt, d + 1) \in {":", "."} THEN d + 1 ELSE d
         IN  RunEnd(lt, e + 1, IsSpace)
    ELSE IF OccursAt("let", lt, i)
    THEN LET a == RunEnd(lt, i + 3, IsSpace)
             b == RunEnd(lt, a + 3, IsSpace)
         IN  IF a > i + 2 /\ OccursAt("us", lt, a + 1) /\ b > a + 2 /\ OccursAt("pray", lt, b + 1)
             THEN b + 4 ELSE 0
    ELSE 0

\* re.split of the marker pattern: the pieces of t between successive matches
RECURSIVE SplitMarkers(_, _)
SplitMarkers(t, from) ==
    LET lt == Lower(t)
        starts == {i \in from..Len(t) : MarkerEnd(lt, i) > 0}
    IN  IF starts = {} THEN <<SubSeq(t, from, Len(t))>>
        ELSE <<SubSeq(t, from, Min(starts) - 1)>>
                 \o SplitMarkers(t, MarkerEnd(lt, Min(starts)) + 1)

\* where father[^.]*(?:\.[^.]*){0,5} ends when "father" is at position f: the
\* sentence holding it and every following sentence, five at most
RECURSIVE FatherExtent(_, _, _)
FatherExtent(s, e, groups) ==
    IF groups = 5 \/ e + 1 > Len(s) THEN [to |-> e, groups |-> groups]
    ELSE FatherExtent(s, NextChar(s, e + 2, ".") - 1, groups + 1)

\* re.search / re.finditer step of (?i)(father[^.]*(?:\.[^.]*){m,5}) from
\* position from on: the leftmost match with at least m groups
FatherMatch(s, from, m) ==
    LET ls == Lower(s)
        Extent(f) == FatherExtent(s, NextChar(s, f + 6, ".") - 1, 0)
        starts == {f \in from..Len(s) : OccursAt("father", ls, f) /\ Extent(f).groups >= m}
    IN  IF starts = {} THEN NoMatch
        ELSE [from |-> Min(starts), to |-> Extent(Min(starts)).to]

Matched(s, m) == SubSeq(s, m.from, m.to)

\* the prayer text of one marker section, cleaned
SectionPrayerText(section) ==
    LET father_match == FatherMatch(section, 1, 0)
        sents == SplitStops(section, 1)
        taken == IF father_match # NoMatch
                 THEN Strip(Matched(section, father_match))
                 ELSE Strip(Join(". ", SubSeq(sents, 1, Min({3, Len(sents)}))))
    IN  Strip(StripQuotes(CollapseSpaces(taken)))

\* the scripture of one marker section: the first of the three patterns, in
\* list order, that matches anywhere in the section
SectionScripture(section) ==
    LET m1 == SearchSimpleCitation(section)
        m2 == SearchFullCitation(section)
        m3 == SearchMarkedScripture(section)
    IN  IF m1 # NoMatch THEN format_scripture_reference(Strip(Matched(section, m1)))
        ELSE IF m2 # NoMatch THEN format_scripture_reference(Strip(Matched(section, m2)))
        ELSE IF m3 # NoMatch THEN format_scripture_reference(Strip(Matched(section, m3)))
        ELSE ""

\* the scripture near a "Father" prayer that ends at position to of t: the
\* first of the two patterns, in list order, that matches in the 300
\* characters after the match
NearbyScripture(t, to) ==
    LET context == Slice(t, to, to + 300)
        m1 == SearchSimpleCitation(context)
        m2 == SearchFullCitation(context)
    IN  IF m1 # NoMatch THEN format_scripture_reference(Matched(context, m1))
        ELSE IF m2 # NoMatch THEN format_scripture_reference(Matched(context, m2))
        ELSE ""

\* the value given to 'number': the position of the candidate, not of the
\* prayer kept
NumberOf(i) == Str(i)

(***************************************************************************)
(* Transcripts.  A transcript is a run of sentences, each ended by a       *)
(* period and separated by one space, as the transcript provider's joined  *)
(* text reads.                                                             *)
(***************************************************************************)

\* most sentences of a generated transcript
MaxSent == 2

\* the longest run of plain sentences after an opening sentence
MaxRun == 15

\* the sentences the generated transcripts are built from
Vocab ==
    { "Let us pray",
      "Father we thank you for this day",
      "We praise your holy name",
      "In Jesus name we pray, Amen",
      "Dear Lord hear us, amen",
      "Today we pray for our nation",
      "Our father is good" }

\* the transcript of a sequence of sentences
Transcript(ss) == Join(" ", [k \in 1..Len(ss) |-> ss[k] \o "."])

\* Scenario A of the specification (section 8)
ScenarioA ==
    "Let us pray. Father we thank you for this day. We praise your holy name. In Jesus name we pray, Amen."

\* an opening sentence that no "amen" follows, r plain sentences long
Runaway(r) == Transcript(<<"Let us pray">> \o [k \in 1..r |-> "We praise your holy name"])

\* sentences with prayer markers, "Father" prayers and citations
MarkerVocab ==
    { "Prayer 1: Thank you Lord",
      "Prayer 2: Father we thank you for the multitudes last Sunday",
      "Father by the blood of Jesus save every contact we made",
      "Psalm 115:1",
      "Zechariah chapter 9 verse 11" }

\* most filler sentences between a "Father" prayer and the citation after it
MaxPad == 6

Filler == "He that dwelleth in the secret place shall abide under the shadow"

\* a "Father" prayer six sentences long, p filler sentences, then a citation
Padded(p) ==
    Transcript(<<"Father by the blood of Jesus save every contact we made",
                 "Hear us", "Keep us", "Lead us", "Heal us", "Amen">>
               \o [k \in 1..p |-> Filler]
               \o <<"Psalm 115:1">>)

Transcripts ==
    {Transcript(ss) : ss \in UNION {[1..n -> Vocab] : n \in 0..MaxSent}}
        \cup {Transcript(ss) : ss \in UNION {[1..n -> MarkerVocab] : n \in 0..MaxSent}}
        \cup {ScenarioA}
        \cup {Runaway(r) : r \in 1..MaxRun}
        \cup {Padded(p) : p \in 0..MaxPad}

(***************************************************************************)
(* extract_prayers: the sentence scanner of apps/prayer_slides/app.py.     *)
(***************************************************************************)

VARIABLES
    text,             \* the transcript handed to the segmenters
    pc,               \* where the run stands
    sentences,        \* extract_prayers: text.split('.')
    idx,              \* extract_prayers: 1-based position of the for loop
    in_prayer,        \* extract_prayers: in_prayer
    current_prayer,   \* extract_prayers: current_prayer
    prayer_sections,  \* extract_prayers: prayer_sections, the result
    section_spans,    \* for each element of prayer_sections, the sentences
                      \* (1-based positions lo..hi) it was joined from and
                      \* the branch that emitted it
    norm,             \* extract_prayers_structured: text, whitespace normalised
    sections,         \* extract_prayers_structured: prayer_sections (re.split)
    sec_i,            \* extract_prayers_structured: i of the marker loop
    fpos,             \* father fallback: where finditer searches next
    fcount,           \* father fallback: i of the match loop
    prayers,          \* extract_prayers_structured: prayers, the result
    prayer_origin     \* for each element of prayers, the branch that made it
                      \* and the positions from..to of its text in the
                      \* section (marker branch) or in norm (fallback)

scan_vars == <<sentences, idx, in_prayer, current_prayer, prayer_sections, section_spans>>

struct_vars == <<norm, sections, sec_i, fpos, fcount, prayers, prayer_origin>>

seg_vars == <<text, pc, scan_vars, struct_vars>>

VARIABLES
    url,                \* app.py: the text input
    extraction_method,  \* app.py: the radio button of the sidebar
    api_key,            \* app.py: the OpenAI key of the sidebar
    app_pc,             \* where the "Extract Prayers" handler stands
    video_id,           \* app.py: video_id
    provider,           \* what the transcript provider did when asked:
                        \* "ok" or the name of the exception it raised
    transcript,         \* app.py: transcript, what get_transcript returned
    messages            \* what the page shows, in order

app_vars == <<url, extraction_method, api_key, app_pc, video_id, provider, transcript, messages>>

VARIABLES
    chunk_texts,      \* the prayers the handler chunks, in order
    max_chars,        \* chunk_into_slides: max_chars
    max_lines,        \* chunk_into_slides: max_lines
    chunk_pc,         \* where the chunking stands
    prayer_i,         \* handler: 1-based position of the prayer being chunked
    chunk_sentences,  \* chunk_into_slides: sentences, text.split('. ')
    sent_i,           \* chunk_into_slides: 1-based position of the for loop
    slides,           \* chunk_into_slides: slides
    slide_parts,      \* for each element of slides, the sentences joined into it
    current_slide,    \* chunk_into_slides: current_slide
    current_length,   \* chunk_into_slides: current_length
    all_slides,       \* handler: all_slides
    slide_info        \* for each element of all_slides, the prayer it came
                      \* from and the sentences joined into it

chunk_vars ==
    <<chunk_texts, max_chars, max_lines, chunk_pc, prayer_i, chunk_sentences, sent_i,
      slides, slide_parts, current_slide, current_length, all_slides, slide_info>>

VARIABLES
    clean_input,   \* the text clean_text is first called on
    clean_pc,      \* the statement of clean_text that runs next
    clean_pass,    \* 1 while cleaning the input, 2 while cleaning the result again
    cleaning,      \* clean_text: text
    cleaned        \* what the calls of clean_text returned, in order

clean_vars == <<clean_input, clean_pc, clean_pass, cleaning, cleaned>>

VARIABLES
    gen_version,            \* which generate_prayer_slides runs: app_v2.py or app_v3_ai.py
    include_prayer_number,  \* generate_prayer_slides: include_prayer_number
    separate_scripture,     \* generate_prayer_slides of app_v3_ai.py: separate_scripture
    gen_prayers,            \* generate_prayer_slides: prayers
    gen_pc,                 \* where the generation stands
    gen_i,                  \* 1-based position of the prayer in the outer loop
    prayer_slides,          \* generate_prayer_slides: prayer_slides
    slide_k,                \* how many elements of prayer_slides the inner loop has taken
    gen_slides,             \* generate_prayer_slides: all_slides
    gen_info,               \* for each element of gen_slides, the prayer it was made for
    formatted_slides,       \* handler: formatted_slides, the separated rendering
    easyworship_format      \* handler: the data of the EasyWorship download

gen_vars ==
    <<gen_version, include_prayer_number, separate_scripture, gen_prayers, gen_pc, gen_i,
      prayer_slides, slide_k, gen_slides, gen_info, formatted_slides, easyworship_format>>

VARIABLES
    reference,     \* the citation handed to the parser and to the formatter
    parse_pc,      \* parse_scripture_reference: "call" before it ran, "returned" after
    parsed,        \* parse_scripture_reference: the value returned
    reparsed,      \* the value returned for the full_reference of parsed
    format_pc,     \* format_scripture_reference: "call" before it ran, "returned" after
    formatted      \* format_scripture_reference: the value returned

ref_vars == <<reference, parse_pc, parsed, reparsed, format_pc, formatted>>

VARIABLES
    detect_text,       \* detect_prayers_regex: text
    text_normalized,   \* detect_prayers_regex: text_normalized
    detect_pc,         \* the loop of detect_prayers_regex that runs
    pattern_i,         \* 1-based position of the pattern the loop is at
    scan_from,         \* 0-based offset at which re.finditer looks for its next match
    results,           \* detect_prayers_regex: results
    group_i,           \* how many items of results the grouping loop has taken
    current,           \* detect_prayers_regex: current_prayer of the grouping loop
    grouped            \* detect_prayers_regex: grouped

detect_vars ==
    <<detect_text, text_normalized, detect_pc, pattern_i, scan_from, results, group_i,
      current, grouped>>

VARIABLES
    vid_url,      \* extract_video_id: url
    vid_pc,       \* which of the two extract_video_id ran on the URL
    vid_slides,   \* what extract_video_id of apps/prayer_slides/app.py returned
    vid_v2        \* what extract_video_id of app_v2.py returned

vid_vars == <<vid_url, vid_pc, vid_slides, vid_v2>>

VARIABLES
    ai_fn,             \* which pipeline runs: app.py, app_v3_ai.py or the detector
    ai_method,         \* extraction_method of the sidebar
    ai_key,            \* api_key, openai_key
    ai_text,           \* transcript_text, text: the transcript
    ai_data,           \* app_v3_ai.py: transcript_data
    ai_pc,             \* where the pipeline stands
    relevant_text,     \* app_v3_ai.py: relevant_text
    sentences_bound,   \* app_v3_ai.py: whether the name prayer_sentences is bound
    completion,        \* how the completion call ended
    ai_result,         \* how the call of the extracting function ended
    ai_prayers,        \* prayers of the call site
    ai_error           \* the message st.error shows

ai_vars ==
    <<ai_fn, ai_method, ai_key, ai_text, ai_data, ai_pc, relevant_text, sentences_bound,
      completion, ai_result, ai_prayers, ai_error>>

VARIABLES
    auth_env,          \* the environment variables check_password reads
    session_state,     \* st.session_state
    auth_pc,           \* "rerun" while a run of the script is due, "shown" after it
    auth_returned,     \* what check_password returned in the last run
    auth_page,         \* what the last run showed: a login form or the app
    last_auth_event    \* history: the most recent login attempt or logout

auth_vars == <<auth_env, session_state, auth_pc, auth_returned, auth_page, last_auth_event>>

VARIABLES
    export_text,       \* app.py: the text handed to the download button
    export_error       \* the exception that ended the run of the page, "" when none

exp_vars == <<export_text, export_error>>

\* the state of the functions modelled last
last_vars == <<vid_vars, ai_vars, auth_vars, exp_vars>>

\* the state of the functions modelled after the segmenters and the handler
more_vars == <<chunk_vars, clean_vars, gen_vars, ref_vars, detect_vars, last_vars>>

\* what the actions of each function leave alone
chunk_others == <<seg_vars, app_vars, clean_vars, gen_vars, ref_vars, detect_vars, last_vars>>

clean_others == <<seg_vars, app_vars, chunk_vars, gen_vars, ref_vars, detect_vars, last_vars>>

gen_others == <<seg_vars, app_vars, chunk_vars, clean_vars, ref_vars, detect_vars, last_vars>>

ref_others == <<seg_vars, app_vars, chunk_vars, clean_vars, gen_vars, detect_vars, last_vars>>

detect_others == <<seg_vars, app_vars, chunk_vars, clean_vars, gen_vars, ref_vars, last_vars>>

\* the state of the functions modelled first
early_vars == <<seg_vars, app_vars, chunk_vars, clean_vars, gen_vars, ref_vars, detect_vars>>

vid_others == <<early_vars, ai_vars, auth_vars, exp_vars>>

ai_others == <<early_vars, vid_vars, auth_vars, exp_vars>>

auth_others == <<early_vars, vid_vars, ai_vars, exp_vars>>

exp_others == <<early_vars, vid_vars, auth_vars>>

vars == <<seg_vars, app_vars, more_vars>>

\* prayer_keywords, joined with | into `pattern`
prayer_keywords ==
    << "let us pray", "let's pray", "father we", "lord we", "dear god", "dear lord",
       "heavenly father", "we pray", "we thank you", "in jesus name", "amen" >>

\* the keyword list of the opening test
opening_keywords ==
    << "let us pray", "let's pray", "father we", "lord we", "dear god", "dear lord",
       "heavenly father" >>

\* sentence.lower().strip()
SentenceLower(sentence) == Strip(Lower(sentence))

\* any(keyword in sentence_lower for keyword in [...])
IsOpening(sentence) ==
    \E k \in 1..Len(opening_keywords) : Contains(SentenceLower(sentence), opening_keywords[k])

\* 'amen' in sentence, the lower() forgotten
HasAmenCaseSensitive(sentence) == Contains(Strip(sentence), "amen")

\* 'amen' in sentence_lower
HasAmen(sentence) == Contains(SentenceLower(sentence), "amen")

\* re.search(pattern, sentence_lower): the pattern is an alternation of literals
MatchesPattern(sentence) ==
    \E k \in 1..Len(prayer_keywords) : Contains(SentenceLower(sentence), prayer_keywords[k])

\* sentences.index(sentence), 1-based: the first position holding an equal string
IndexOf(ss, sentence) == Min({j \in 1..Len(ss) : ss[j] = sentence})

\* context_start and context_end as 1-based inclusive positions lo..hi of
\* sentences[context_start:context_end]
ContextLo(ss, sentence) == Max({0, (IndexOf(ss, sentence) - 1) - 1}) + 1

ContextHi(ss, sentence) == Min({Len(ss), (IndexOf(ss, sentence) - 1) + 3})

\* '. '.join(sentences[context_start:context_end])
Context(ss, sentence) ==
    Join(". ", SubSeq(ss, ContextLo(ss, sentence), ContextHi(ss, sentence)))

\* the branch `if any(...)`: a trigger sentence opens a span
ScanOpen ==
    /\ pc = "scan"
    /\ idx <= Len(sentences)
    /\ IsOpening(sentences[idx])
    /\ in_prayer' = TRUE
    /\ current_prayer' = <<Strip(sentences[idx])>>
    /\ idx' = idx + 1
    /\ UNCHANGED <<app_vars, more_vars, text, pc, sentences, prayer_sections, section_spans, struct_vars>>

\* the branch `elif in_prayer`: accumulate, and close on 'amen'
ScanContinue ==
    /\ pc = "scan"
    /\ idx <= Len(sentences)
    /\ ~IsOpening(sentences[idx])
    /\ in_prayer
    /\ LET grown == Append(current_prayer, Strip(sentences[idx]))
       IN  IF HasAmen(sentences[idx])
           THEN /\ prayer_sections' = Append(prayer_sections, Join(". ", grown))
                /\ section_spans' = Append(section_spans,
                        [lo |-> idx - Len(grown) + 1, hi |-> idx, kind |-> "span"])
                /\ in_prayer' = FALSE
                /\ current_prayer' = <<>>
           ELSE /\ current_prayer' = grown
                /\ UNCHANGED <<prayer_sections, section_spans, in_prayer>>
    /\ idx' = idx + 1
    /\ UNCHANGED <<app_vars, more_vars, text, pc, sentences, struct_vars>>

\* the branch `elif re.search(pattern, sentence_lower) and len(sentence.strip()) > 20`
ScanContext ==
    /\ pc = "scan"
    /\ idx <= Len(sentences)
    /\ ~IsOpening(sentences[idx])
    /\ ~in_prayer
    /\ MatchesPattern(sentences[idx])
    /\ Len(Strip(sentences[idx])) > 20
    /\ LET context == Context(sentences, sentences[idx])
       IN  IF Len(context) > 50
           THEN /\ prayer_sections' = Append(prayer_sections, Strip(context))
                /\ section_spans' = Append(section_spans,
                        [lo |-> ContextLo(sentences, sentences[idx]),
                         hi |-> ContextHi(sentences, sentences[idx]),
                         kind |-> "context"])
           ELSE UNCHANGED <<prayer_sections, section_spans>>
    /\ idx' = idx + 1
    /\ UNCHANGED <<app_vars, more_vars, text, pc, sentences, in_prayer, current_prayer, struct_vars>>

\* no branch applies: the sentence is passed over
ScanSkip ==
    /\ pc = "scan"
    /\ idx <= Len(sentences)
    /\ ~IsOpening(sentences[idx])
    /\ ~in_prayer
    /\ ~(MatchesPattern(sentences[idx]) /\ Len(Strip(sentences[idx])) > 20)
    /\ idx' = idx + 1
    /\ UNCHANGED <<app_vars, more_vars, text, pc, sentences, in_prayer, current_prayer, prayer_sections,
                   section_spans, struct_vars>>

\* `if in_prayer and current_prayer: prayer_sections.append(...)`, as a mutant has it
FlushedDropsOpenSpan(in_p, cur, secs) == secs

\* `if in_prayer and current_prayer: prayer_sections.append('. '.join(current_prayer))`
Flushed(in_p, cur, secs) ==
    IF in_p /\ cur # <<>> THEN Append(secs, Join(". ", cur)) ELSE secs

\* the end of the loop, the final append and `return prayer_sections`
ScanFlush ==
    /\ pc = "scan"
    /\ idx > Len(sentences)
    /\ prayer_sections' = Flushed(in_prayer, current_prayer, prayer_sections)
    /\ section_spans' =
          IF in_prayer /\ current_prayer # <<>>
          THEN Append(section_spans,
                      [lo |-> Len(sentences) - Len(current_prayer) + 1,
                       hi |-> Len(sentences), kind |-> "span"])
          ELSE section_spans
    /\ pc' = "scanned"
    /\ UNCHANGED <<app_vars, more_vars, text, sentences, idx, in_prayer, current_prayer, struct_vars>>

(***************************************************************************)
(* extract_prayers_structured: the marker loop and the "Father" fallback.  *)
(***************************************************************************)

\* text = re.sub(r'\s+', ' ', transcript) and the re.split on prayer markers
StructStart ==
    /\ pc = "scanned"
    /\ norm' = CollapseSpaces(text)
    /\ sections' = SplitMarkers(CollapseSpaces(text), 1)
    /\ sec_i' = 1
    /\ pc' = "markers"
    /\ UNCHANGED <<app_vars, more_vars, text, scan_vars, fpos, fcount, prayers, prayer_origin>>

\* the section the marker loop is at: prayer_sections[1:][i - 1]
CurrentSection == sections[sec_i + 1]

\* both length tests of the marker loop pass
MarkerKept(section) ==
    /\ Len(Strip(section)) > 20
    /\ Len(SectionPrayerText(section)) > 30

\* one pass of the marker loop that appends a prayer
MarkerAccept ==
    /\ pc = "markers"
    /\ sec_i + 1 <= Len(sections)
    /\ MarkerKept(CurrentSection)
    /\ prayers' = Append(prayers,
            [number    |-> NumberOf(sec_i),
             prayer    |-> SectionPrayerText(CurrentSection),
             scripture |-> SectionScripture(CurrentSection)])
    /\ prayer_origin' = Append(prayer_origin,
            [branch |-> "marker", section |-> sec_i,
             from |-> FatherMatch(CurrentSection, 1, 0).from,
             to   |-> FatherMatch(CurrentSection, 1, 0).to])
    /\ sec_i' = sec_i + 1
    /\ UNCHANGED <<app_vars, more_vars, text, pc, scan_vars, norm, sections, fpos, fcount>>

\* one pass of the marker loop that appends nothing
MarkerReject ==
    /\ pc = "markers"
    /\ sec_i + 1 <= Len(sections)
    /\ ~MarkerKept(CurrentSection)
    /\ sec_i' = sec_i + 1
    /\ UNCHANGED <<app_vars, more_vars, text, pc, scan_vars, norm, sections, fpos, fcount, prayers, prayer_origin>>

\* prayers[:20]
FirstTwenty(ps) == SubSeq(ps, 1, Min({20, Len(ps)}))

\* the end of the marker loop: `if not prayers` enters the fallback, otherwise
\* the function returns prayers[:20]
MarkersDone ==
    /\ pc = "markers"
    /\ sec_i + 1 > Len(sections)
    /\ IF prayers = <<>>
       THEN /\ pc' = "fallback"
            /\ fpos' = 1
            /\ fcount' = 1
            /\ UNCHANGED prayers
       ELSE /\ pc' = "done"
            /\ prayers' = FirstTwenty(prayers)
            /\ UNCHANGED <<fpos, fcount>>
    /\ UNCHANGED <<app_vars, more_vars, text, scan_vars, norm, sections, sec_i, prayer_origin>>

\* the match the fallback loop is at
FallbackMatch == FatherMatch(norm, fpos, 1)

\* re.sub(r'\s+', ' ', prayer_text).strip() of the fallback
FallbackPrayerText(m) == Strip(CollapseSpaces(Strip(Matched(norm, m))))

\* len(prayer_text) > 30 and len(prayer_text) < 1000
FallbackKept(m) ==
    /\ Len(FallbackPrayerText(m)) > 30
    /\ Len(FallbackPrayerText(m)) < 1000

\* one pass of the fallback loop that appends a prayer
FallbackAccept ==
    /\ pc = "fallback"
    /\ FallbackMatch # NoMatch
    /\ FallbackKept(FallbackMatch)
    /\ prayers' = Append(prayers,
            [number    |-> NumberOf(fcount),
             prayer    |-> FallbackPrayerText(FallbackMatch),
             scripture |-> NearbyScripture(norm, FallbackMatch.to)])
    /\ prayer_origin' = Append(prayer_origin,
            [branch |-> "fallback", section |-> 0,
             from |-> FallbackMatch.from, to |-> FallbackMatch.to])
    /\ fpos' = FallbackMatch.to + 1
    /\ fcount' = fcount + 1
    /\ UNCHANGED <<app_vars, more_vars, text, pc, scan_vars, norm, sections, sec_i>>

\* one pass of the fallback loop that appends nothing
FallbackReject ==
    /\ pc = "fallback"
    /\ FallbackMatch # NoMatch
    /\ ~FallbackKept(FallbackMatch)
    /\ fpos' = FallbackMatch.to + 1
    /\ fcount' = fcount + 1
    /\ UNCHANGED <<app_vars, more_vars, text, pc, scan_vars, norm, sections, sec_i, prayers, prayer_origin>>

\* no further match: return prayers[:20]
FallbackDone ==
    /\ pc = "fallback"
    /\ FallbackMatch = NoMatch
    /\ prayers' = FirstTwenty(prayers)
    /\ pc' = "done"
    /\ UNCHANGED <<app_vars, more_vars, text, scan_vars, norm, sections, sec_i, fpos, fcount, prayer_origin>>

\* nothing is being chunked
ChunkIdle ==
    /\ chunk_texts = <<>>
    /\ max_chars = 0
    /\ max_lines = 0
    /\ chunk_pc = "off"
    /\ prayer_i = 0
    /\ chunk_sentences = <<>>
    /\ sent_i = 0
    /\ slides = <<>>
    /\ slide_parts = <<>>
    /\ current_slide = <<>>
    /\ current_length = 0
    /\ all_slides = <<>>
    /\ slide_info = <<>>

\* nothing is being cleaned
CleanIdle ==
    /\ clean_input = ""
    /\ clean_pc = "off"
    /\ clean_pass = 0
    /\ cleaning = ""
    /\ cleaned = <<>>

\* no slides are being generated
GenIdle ==
    /\ gen_version = "off"
    /\ include_prayer_number = FALSE
    /\ separate_scripture = FALSE
    /\ gen_prayers = <<>>
    /\ gen_pc = "off"
    /\ gen_i = 0
    /\ prayer_slides = <<>>
    /\ slide_k = 0
    /\ gen_slides = <<>>
    /\ gen_info = <<>>
    /\ formatted_slides = ""
    /\ easyworship_format = ""

\* no citation is being parsed or formatted
RefIdle ==
    /\ reference = ""
    /\ parse_pc = "off"
    /\ parsed = <<>>
    /\ reparsed = <<>>
    /\ format_pc = "off"
    /\ formatted = ""

\* the regex detector is not running
DetectIdle ==
    /\ detect_text = ""
    /\ text_normalized = ""
    /\ detect_pc = "off"
    /\ pattern_i = 0
    /\ scan_from = 0
    /\ results = <<>>
    /\ group_i = 0
    /\ current = <<>>
    /\ grouped = <<>>

\* no video id is being extracted
VidIdle ==
    /\ vid_url = ""
    /\ vid_pc = "off"
    /\ vid_slides = ""
    /\ vid_v2 = ""

\* no assisted extraction is running
AiIdle ==
    /\ ai_fn = "off"
    /\ ai_method = ""
    /\ ai_key = ""
    /\ ai_text = ""
    /\ ai_data = <<>>
    /\ ai_pc = "off"
    /\ relevant_text = ""
    /\ sentences_bound = FALSE
    /\ completion = <<>>
    /\ ai_result = <<>>
    /\ ai_prayers = <<>>
    /\ ai_error = ""

\* no session is open
AuthIdle ==
    /\ auth_env = <<>>
    /\ session_state = <<>>
    /\ auth_pc = "off"
    /\ auth_returned = FALSE
    /\ auth_page = "none"
    /\ last_auth_event = "none"

\* nothing was exported
ExpIdle == export_text = "" /\ export_error = ""

\* the functions modelled last are not running
LastIdle == VidIdle /\ AiIdle /\ AuthIdle /\ ExpIdle

\* the parser, the formatter, the detector and what follows are not running
LateIdle == RefIdle /\ DetectIdle /\ LastIdle

\* the functions modelled after the segmenters and the handler are not running
MoreIdle == ChunkIdle /\ CleanIdle /\ GenIdle /\ LateIdle

\* no request is being handled
AppIdle ==
    /\ url = ""
    /\ extraction_method = "Transcript Only"
    /\ api_key = ""
    /\ app_pc = "off"
    /\ video_id = ""
    /\ provider = "none"
    /\ transcript = <<>>
    /\ messages = <<>>

Init ==
    /\ text \in Transcripts
    /\ pc = "scan"
    /\ sentences = Split(text, ".")
    /\ idx = 1
    /\ in_prayer = FALSE
    /\ current_prayer = <<>>
    /\ prayer_sections = <<>>
    /\ section_spans = <<>>
    /\ norm = ""
    /\ sections = <<>>
    /\ sec_i = 0
    /\ fpos = 0
    /\ fcount = 0
    /\ prayers = <<>>
    /\ prayer_origin = <<>>
    /\ AppIdle
    /\ MoreIdle

Next ==
    \/ ScanOpen
    \/ ScanContinue
    \/ ScanContext
    \/ ScanSkip
    \/ ScanFlush
    \/ StructStart
    \/ MarkerAccept
    \/ MarkerReject
    \/ MarkersDone
    \/ FallbackAccept
    \/ FallbackReject
    \/ FallbackDone

Spec == Init /\ [][Next]_vars

(***************************************************************************)
(* The "Extract Prayers" handler of app.py and get_transcript.             *)
(***************************************************************************)

MaxSegments == 2

\* what users type into the URL box
Urls ==
    { "",
      "https://www.youtube.com/watch?v=abc123&t=10s",
      "https://www.youtube.com/live/xyz789?feature=share",
      "https://youtu.be/abc123?t=5",
      "https://youtu.be/abc123",
      "abc123" }

\* the exceptions the transcript provider raises
ProviderErrors == {"TranscriptsDisabled", "NoTranscriptFound", "VideoUnavailable"}

SegmentTexts == {"Let us pray", "Amen"}

\* the fetched transcripts: lists of segments, each with a text
FetchedTranscripts ==
    UNION {[1..n -> [text : SegmentTexts]] : n \in 1..MaxSegments}

PyNone == "None"

\* the video id the handler takes from the URL
VideoIdOf(u) ==
    IF Contains(u, "youtube.com/watch?v=")
    THEN Split(Split(u, "watch?v=")[2], "&")[1]
    ELSE IF Contains(u, "youtube.com/live/")
    THEN Split(Split(u, "youtube.com/live/")[2], "?")[1]
    ELSE IF Contains(u, "youtu.be/")
    THEN Split(Split(u, "youtu.be/")[2], "?")[1]
    ELSE u

\* the dict get_transcript starts from
EmptyResult ==
    [transcript |-> PyNone, error |-> PyNone, error_type |-> PyNone, error_details |-> PyNone]

\* bool(d) of a dict: it has a key
Truthy(d) == DOMAIN d # {}

\* len(d) of a dict: the number of its keys
PyLen(d) == Cardinality(DOMAIN d)

Message(kind, body) == [kind |-> kind, body |-> body]

\* the button is clicked: without a URL nothing runs, otherwise the video id
\* is extracted and written to the page
Click ==
    /\ app_pc = "idle"
    /\ IF url = ""
       THEN /\ app_pc' = "end"
            /\ UNCHANGED <<video_id, messages>>
       ELSE /\ video_id' = VideoIdOf(url)
            /\ messages' = Append(messages, Message("write", "Video ID: " \o VideoIdOf(url)))
            /\ app_pc' = "fetch"
    /\ UNCHANGED <<seg_vars, more_vars, url, extraction_method, api_key, provider, transcript>>

\* get_transcript, the provider answering: the result dict carries the segments
GetTranscriptFetched ==
    /\ app_pc = "fetch"
    /\ \E segments \in FetchedTranscripts :
          transcript' = [EmptyResult EXCEPT !.transcript = segments]
    /\ provider' = "ok"
    /\ app_pc' = "check"
    /\ UNCHANGED <<seg_vars, more_vars, url, extraction_method, api_key, video_id, messages>>

\* get_transcript, the provider raising: the exception is caught and the
\* result dict carries the error
GetTranscriptFailed ==
    /\ app_pc = "fetch"
    /\ \E e \in ProviderErrors :
          /\ provider' = e
          /\ transcript' = [EmptyResult EXCEPT !.error = "error: " \o e,
                                               !.error_type = e,
                                               !.error_details = "Traceback: " \o e]
    /\ app_pc' = "check"
    /\ UNCHANGED <<seg_vars, more_vars, url, extraction_method, api_key, video_id, messages>>

\* if transcript: ... else: ...
CheckTranscript ==
    /\ app_pc = "check"
    /\ IF Truthy(transcript)
       THEN /\ messages' = Append(messages,
                   Message("success", "Found " \o Str(PyLen(transcript)) \o " segments"))
            /\ app_pc' = "join"
       ELSE /\ messages' = Append(messages, Message("error", "Failed to fetch transcript"))
            /\ app_pc' = "end"
    /\ UNCHANGED <<seg_vars, more_vars, url, extraction_method, api_key, video_id, provider, transcript>>

\* " ".join([s.text for s in transcript]): iterating the dict yields its
\* keys, which are str and have no attribute text, so the comprehension
\* raises AttributeError and the script run ends with the exception shown
JoinText ==
    /\ app_pc = "join"
    /\ DOMAIN transcript \subseteq {"transcript", "error", "error_type", "error_details"}
    /\ messages' = Append(messages, Message("exception", "AttributeError"))
    /\ app_pc' = "crashed"
    /\ UNCHANGED <<seg_vars, more_vars, url, extraction_method, api_key, video_id, provider, transcript>>

\* no transcript is being segmented
SegIdle ==
    /\ text = ""
    /\ pc = "off"
    /\ sentences = <<>>
    /\ idx = 0
    /\ in_prayer = FALSE
    /\ current_prayer = <<>>
    /\ prayer_sections = <<>>
    /\ section_spans = <<>>
    /\ norm = ""
    /\ sections = <<>>
    /\ sec_i = 0
    /\ fpos = 0
    /\ fcount = 0
    /\ prayers = <<>>
    /\ prayer_origin = <<>>

InitApp ==
    /\ SegIdle
    /\ MoreIdle
    /\ url \in Urls
    /\ extraction_method \in {"AI (OpenAI)", "Transcript Only"}
    /\ api_key \in {"", "sk-test"}
    /\ app_pc = "idle"
    /\ video_id = ""
    /\ provider = "none"
    /\ transcript = <<>>
    /\ messages = <<>>

NextApp ==
    \/ Click
    \/ GetTranscriptFetched
    \/ GetTranscriptFailed
    \/ CheckTranscript
    \/ JoinText

SpecApp == InitApp /\ [][NextApp]_vars

(***************************************************************************)
(* chunk_into_slides and the loop of the "Generate Prayer Slides" handler  *)
(* that chunks each prayer (apps/prayer_slides/app.py).                    *)
(***************************************************************************)

\* most sentences of a prayer handed to the chunker
MaxChunkSent == 3

\* the sentences the chunked prayers are built from
ChunkVocab ==
    << "This is the first sentence",
       "Lord we praise you now",
       "Amen! Thank you",
       "Why?",
       "Father we thank you for this day and for every blessing upon us" >>

\* the prayers of n sentences, joined as extract_prayers joins them
ChunkTextsOf(n) ==
    {Join(". ", [k \in 1..n |-> ChunkVocab[f[k]]]) : f \in [1..n -> 1..Len(ChunkVocab)]}

\* the lists of prayers the handler chunks: one prayer of up to MaxChunkSent
\* sentences, with or without its final period, or two one-sentence prayers
ChunkInputs ==
    LET texts == UNION {ChunkTextsOf(n) : n \in 0..MaxChunkSent}
    IN  {<<t>> : t \in texts}
        \cup {<<t \o ".">> : t \in ChunkTextsOf(1)}
        \cup {<<t1, t2>> : t1 \in ChunkTextsOf(1), t2 \in ChunkTextsOf(1)}

\* the settings the chunker runs under: those of test_chunking and the
\* smallest of the handler's sliders
ChunkSettings == {[max_chars |-> 50, max_lines |-> 2], [max_chars |-> 100, max_lines |-> 2]}

\* sentence = sentence.strip() of the sentence the loop is at
ChunkSentence == Strip(chunk_sentences[sent_i])

\* sentence_with_period
WithPeriod(sentence) == IF EndsWith(sentence, ".") THEN sentence ELSE sentence \o "."

\* the slide keeps every sentence whatever its length
OverflowsByLinesOnly(cur_len, sent_len, lines, mc, ml) == lines >= ml

\* current_length + sentence_length > max_chars or len(current_slide) >= max_lines
Overflows(cur_len, sent_len, lines, mc, ml) == cur_len + sent_len > mc \/ lines >= ml

\* the slides with the unfinished slide forgotten
ClosedSlideLost(ss, cur) == ss

\* if current_slide: slides.append(' '.join(current_slide))
ClosedSlide(ss, cur) == IF cur # <<>> THEN Append(ss, Join(" ", cur)) ELSE ss

\* the sentences of the slides, kept alongside
ClosedParts(ps, cur) == IF cur # <<>> THEN Append(ps, cur) ELSE ps

\* chunk_into_slides is called on the next prayer
ChunkCall ==
    /\ chunk_pc = "call"
    /\ chunk_sentences' = Split(chunk_texts[prayer_i], ". ")
    /\ sent_i' = 1
    /\ slides' = <<>>
    /\ slide_parts' = <<>>
    /\ current_slide' = <<>>
    /\ current_length' = 0
    /\ chunk_pc' = "loop"
    /\ UNCHANGED <<chunk_others, chunk_texts, max_chars, max_lines, prayer_i,
                   all_slides, slide_info>>

\* if not sentence: continue
ChunkSkipEmpty ==
    /\ chunk_pc = "loop"
    /\ sent_i <= Len(chunk_sentences)
    /\ ChunkSentence = ""
    /\ sent_i' = sent_i + 1
    /\ UNCHANGED <<chunk_others, chunk_texts, max_chars, max_lines, chunk_pc, prayer_i,
                   chunk_sentences, slides, slide_parts, current_slide, current_length,
                   all_slides, slide_info>>

\* the sentence does not fit: the current slide is closed and the sentence
\* starts the next one
ChunkNewSlide ==
    /\ chunk_pc = "loop"
    /\ sent_i <= Len(chunk_sentences)
    /\ ChunkSentence # ""
    /\ Overflows(current_length, Len(WithPeriod(ChunkSentence)), Len(current_slide),
                 max_chars, max_lines)
    /\ slides' = ClosedSlide(slides, current_slide)
    /\ slide_parts' = ClosedParts(slide_parts, current_slide)
    /\ current_slide' = <<WithPeriod(ChunkSentence)>>
    /\ current_length' = Len(WithPeriod(ChunkSentence))
    /\ sent_i' = sent_i + 1
    /\ UNCHANGED <<chunk_others, chunk_texts, max_chars, max_lines, chunk_pc, prayer_i,
                   chunk_sentences, all_slides, slide_info>>

\* the sentence fits: it joins the current slide
ChunkAppend ==
    /\ chunk_pc = "loop"
    /\ sent_i <= Len(chunk_sentences)
    /\ ChunkSentence # ""
    /\ ~Overflows(current_length, Len(WithPeriod(ChunkSentence)), Len(current_slide),
                  max_chars, max_lines)
    /\ current_slide' = Append(current_slide, WithPeriod(ChunkSentence))
    /\ current_length' = current_length + Len(WithPeriod(ChunkSentence)) + 1
    /\ sent_i' = sent_i + 1
    /\ UNCHANGED <<chunk_others, chunk_texts, max_chars, max_lines, chunk_pc, prayer_i,
                   chunk_sentences, slides, slide_parts, all_slides, slide_info>>

\* the loop is over: the last slide is closed, the slides are returned and
\* the handler extends all_slides with them
ChunkReturn ==
    /\ chunk_pc = "loop"
    /\ sent_i > Len(chunk_sentences)
    /\ slides' = ClosedSlide(slides, current_slide)
    /\ slide_parts' = ClosedParts(slide_parts, current_slide)
    /\ all_slides' = all_slides \o slides'
    /\ slide_info' = slide_info \o
          [k \in 1..Len(slide_parts') |-> [prayer |-> prayer_i, sentences |-> slide_parts'[k]]]
    /\ prayer_i' = prayer_i + 1
    /\ chunk_pc' = IF prayer_i < Len(chunk_texts) THEN "call" ELSE "done"
    /\ UNCHANGED <<chunk_others, chunk_texts, max_chars, max_lines, chunk_sentences,
                   sent_i, current_slide, current_length>>

InitChunk ==
    /\ SegIdle
    /\ AppIdle
    /\ CleanIdle
    /\ GenIdle
    /\ LateIdle
    /\ chunk_texts \in ChunkInputs
    /\ \E setting \in ChunkSettings :
          /\ max_chars = setting.max_chars
          /\ max_lines = setting.max_lines
    /\ chunk_pc = "call"
    /\ prayer_i = 1
    /\ chunk_sentences = <<>>
    /\ sent_i = 0
    /\ slides = <<>>
    /\ slide_parts = <<>>
    /\ current_slide = <<>>
    /\ current_length = 0
    /\ all_slides = <<>>
    /\ slide_info = <<>>

NextChunk ==
    \/ ChunkCall
    \/ ChunkSkipEmpty
    \/ ChunkNewSlide
    \/ ChunkAppend
    \/ ChunkReturn

SpecChunk == InitChunk /\ [][NextChunk]_vars

(***************************************************************************)
(* clean_text (apps/prayer_slides/app.py).                                 *)
(***************************************************************************)

\* most tokens of a text handed to clean_text
MaxCleanWords == 2

\* the tokens the cleaned texts are built from
CleanVocab ==
    << "Father", "we", "um", "Um,", "likely", "summer", "[10:32]", "(laughs)", "Amen.", "." >>

CleanTextsOf(n) ==
    {Join(" ", [k \in 1..n |-> CleanVocab[f[k]]]) : f \in [1..n -> 1..Len(CleanVocab)]}

\* the texts cleaned: up to MaxCleanWords tokens, and the texts of test_text_cleaning
CleanInputs ==
    UNION {CleanTextsOf(n) : n \in 1..MaxCleanWords}
    \cup {"[10:32] Father we um thank you", "Lord   we    praise", "Amen."}

\* re.sub of a lazy bracket pattern such as \[.*?\] by '': from each opening
\* character on, the text up to the first closing character on the same line
\* is removed
RECURSIVE RemoveDelimited(_, _, _, _)
RemoveDelimited(s, i, open, close) ==
    IF i > Len(s) THEN ""
    ELSE IF /\ CharAt(s, i) = open
            /\ NextChar(s, i + 1, close) <= Len(s)
            /\ NextChar(s, i + 1, close) < NextChar(s, i + 1, "\n")
         THEN RemoveDelimited(s, NextChar(s, i + 1, close) + 1, open, close)
         ELSE CharAt(s, i) \o RemoveDelimited(s, i + 1, open, close)

\* the alternatives of the filler pattern, in order
fillers == << "um", "uh", "you know", "like", "i mean", "actually" >>

\* the alternatives that match at position i of the lower-cased text ls
FillerAt(ls, i) == {k \in 1..Len(fillers) : OccursAt(fillers[k], ls, i)}

\* where ,?\s* ends after a filler that ends at position e - 1
FillerTail(s, e) == RunEnd(s, IF CharAt(s, e) = "," THEN e + 1 ELSE e, IsSpace)

\* re.sub(r'(?:um|uh|you know|like|I mean|actually),?\s*', '', text,
\* flags=re.IGNORECASE): ls is the lower-cased text
RECURSIVE RemoveFillers(_, _, _)
RemoveFillers(s, ls, i) ==
    IF i > Len(s) THEN ""
    ELSE IF FillerAt(ls, i) # {}
         THEN RemoveFillers(s, ls, FillerTail(s, i + Len(fillers[Min(FillerAt(ls, i))])) + 1)
         ELSE CharAt(s, i) \o RemoveFillers(s, ls, i + 1)

IsDot(c) == c = "."

\* re.sub(r'\.{2,}', '.', text)
RECURSIVE CollapseDots(_, _)
CollapseDots(s, i) ==
    IF i > Len(s) THEN ""
    ELSE IF CharAt(s, i) = "." /\ CharAt(s, i + 1) = "."
         THEN "." \o CollapseDots(s, RunEnd(s, i, IsDot) + 1)
         ELSE CharAt(s, i) \o CollapseDots(s, i + 1)

\* re.sub(r'\s+([,.!?])', r'\1', text): a run of whitespace before one of
\* , . ! ? is removed
RECURSIVE TightenPunctuation(_, _)
TightenPunctuation(s, i) ==
    IF i > Len(s) THEN ""
    ELSE IF IsSpace(CharAt(s, i))
         THEN (IF CharAt(s, RunEnd(s, i, IsSpace) + 1) \in {",", ".", "!", "?"}
               THEN ""
               ELSE SubSeq(s, i, RunEnd(s, i, IsSpace)))
              \o TightenPunctuation(s, RunEnd(s, i, IsSpace) + 1)
         ELSE CharAt(s, i) \o TightenPunctuation(s, i + 1)

\* text = re.sub(r'\[.*?\]', '', text)
CleanBrackets ==
    /\ clean_pc = "brackets"
    /\ cleaning' = RemoveDelimited(cleaning, 1, "[", "]")
    /\ clean_pc' = "parens"
    /\ UNCHANGED <<clean_others, clean_input, clean_pass, cleaned>>

\* text = re.sub(r'\(.*?\)', '', text)
CleanParens ==
    /\ clean_pc = "parens"
    /\ cleaning' = RemoveDelimited(cleaning, 1, "(", ")")
    /\ clean_pc' = "fillers"
    /\ UNCHANGED <<clean_others, clean_input, clean_pass, cleaned>>

\* the filler substitution
CleanFillers ==
    /\ clean_pc = "fillers"
    /\ cleaning' = RemoveFillers(cleaning, Lower(cleaning), 1)
    /\ clean_pc' = "spaces"
    /\ UNCHANGED <<clean_others, clean_input, clean_pass, cleaned>>

\* text = re.sub(r'\s+', ' ', text)
CleanSpaces ==
    /\ clean_pc = "spaces"
    /\ cleaning' = CollapseSpaces(cleaning)
    /\ clean_pc' = "dots"
    /\ UNCHANGED <<clean_others, clean_input, clean_pass, cleaned>>

\* text = re.sub(r'\.{2,}', '.', text)
CleanDots ==
    /\ clean_pc = "dots"
    /\ cleaning' = CollapseDots(cleaning, 1)
    /\ clean_pc' = "punctuation"
    /\ UNCHANGED <<clean_others, clean_input, clean_pass, cleaned>>

\* text = re.sub(r'\s+([,.!?])', r'\1', text)
CleanPunctuation ==
    /\ clean_pc = "punctuation"
    /\ cleaning' = TightenPunctuation(cleaning, 1)
    /\ clean_pc' = "return"
    /\ UNCHANGED <<clean_others, clean_input, clean_pass, cleaned>>

\* return text.strip(); the result of the first call is cleaned again
CleanReturn ==
    /\ clean_pc = "return"
    /\ cleaned' = Append(cleaned, Strip(cleaning))
    /\ IF clean_pass = 1
       THEN /\ clean_pass' = 2
            /\ cleaning' = Strip(cleaning)
            /\ clean_pc' = "brackets"
       ELSE /\ clean_pc' = "done"
            /\ UNCHANGED <<clean_pass, cleaning>>
    /\ UNCHANGED <<clean_others, clean_input>>

InitClean ==
    /\ SegIdle
    /\ AppIdle
    /\ ChunkIdle
    /\ GenIdle
    /\ LateIdle
    /\ clean_input \in CleanInputs
    /\ clean_pc = "brackets"
    /\ clean_pass = 1
    /\ cleaning = clean_input
    /\ cleaned = <<>>

NextClean ==
    \/ CleanBrackets
    \/ CleanParens
    \/ CleanFillers
    \/ CleanSpaces
    \/ CleanDots
    \/ CleanPunctuation
    \/ CleanReturn

SpecClean == InitClean /\ [][NextClean]_vars

(***************************************************************************)
(* generate_prayer_slides and the EasyWorship download (app_v2.py,         *)
(* app_v3_ai.py).                                                          *)
(***************************************************************************)

\* most prayers handed to generate_prayer_slides
MaxGenPrayers == 2

\* t repeated n times, separated by one space
RECURSIVE Repeated(_, _)
Repeated(t, n) == IF n <= 1 THEN t ELSE t \o " " \o Repeated(t, n - 1)

\* a prayer that fits one slide and a prayer that takes more than 8 lines
ShortPrayer == "Father we thank you for this day"

LongPrayer == Repeated("Everlasting Father, strengthen congregations.", 11)

\* the prayers generated from: every list of up to MaxGenPrayers prayers,
\* numbered by position, each short or long, with or without a scripture
GenPrayerLists ==
    UNION {[1..n -> [prayer : {ShortPrayer, LongPrayer}, scripture : {"", "Psalm 115:1"}]]
              : n \in 1..MaxGenPrayers}

Numbered(ps) ==
    [k \in 1..Len(ps) |-> [number |-> Str(k), prayer |-> ps[k].prayer, scripture |-> ps[k].scripture]]

\* text.split(): the words of a text whose whitespace is collapsed and stripped
Words(t) == IF t = "" THEN <<>> ELSE Split(t, " ")

\* the for loop of format_slide_text from word k on: the lines of at most
\* 60 characters, a word longer than that on a line of its own
RECURSIVE WrapLines(_, _, _, _)
WrapLines(words, k, current_line, cur_len) ==
    IF k > Len(words)
    THEN IF current_line # <<>> THEN <<Join(" ", current_line)>> ELSE <<>>
    ELSE IF cur_len + Len(words[k]) + 1 > 60 /\ current_line # <<>>
         THEN <<Join(" ", current_line)>> \o WrapLines(words, k + 1, <<words[k]>>, Len(words[k]) + 1)
         ELSE WrapLines(words, k + 1, Append(current_line, words[k]), cur_len + Len(words[k]) + 1)

\* split_into_multiple_slides: the lines in groups of 8
RECURSIVE split_into_multiple_slides(_, _)
split_into_multiple_slides(lines, from) ==
    IF from > Len(lines) THEN <<>>
    ELSE <<Join("\n", SubSeq(lines, from, Min({from + 7, Len(lines)})))>>
         \o split_into_multiple_slides(lines, from + 8)

SlidesOfLines(lines) ==
    IF Len(lines) > 8 THEN split_into_multiple_slides(lines, 1) ELSE <<Join("\n", lines)>>

\* format_slide_text: the text in capitals, wrapped, 8 lines to a slide
format_slide_text(t) == SlidesOfLines(WrapLines(Words(Strip(CollapseSpaces(Upper(t)))), 1, <<>>, 0))

\* the header of the slides of a prayer
Header(prayer, with_number) ==
    IF with_number /\ prayer.number # "" THEN "PRAYER " \o prayer.number ELSE "PRAYER"

\* the abbreviations table of format_scripture_reference of app_v3_ai.py, in
\* the order the loop visits it
abbreviations_v3 ==
    << <<"genesis", "GEN.">>, <<"exodus", "EXO.">>, <<"leviticus", "LEV.">>,
       <<"numbers", "NUM.">>, <<"deuteronomy", "DEU.">>, <<"joshua", "JOS.">>,
       <<"judges", "JUD.">>, <<"ruth", "RUT.">>, <<"1 samuel", "1 SAM.">>,
       <<"2 samuel", "2 SAM.">>, <<"1 kings", "1 KIN.">>, <<"2 kings", "2 KIN.">>,
       <<"job", "JOB">>, <<"psalm", "PSA.">>, <<"psalms", "PSA.">>, <<"proverbs", "PRO.">>,
       <<"ecclesiastes", "ECC.">>, <<"isaiah", "ISA.">>, <<"jeremiah", "JER.">>,
       <<"matthew", "MAT.">>, <<"mark", "MAR.">>, <<"luke", "LUK.">>, <<"john", "JOH.">>,
       <<"acts", "ACT.">>, <<"romans", "ROM.">>, <<"1 corinthians", "1 COR.">>,
       <<"2 corinthians", "2 COR.">>, <<"galatians", "GAL.">>, <<"ephesians", "EPH.">>,
       <<"philippians", "PHI.">>, <<"colossians", "COL.">>, <<"titus", "TIT.">>,
       <<"hebrews", "HEB.">>, <<"james", "JAM.">>, <<"1 peter", "1 PET.">>,
       <<"2 peter", "2 PET.">>, <<"revelation", "REV.">>, <<"zechariah", "ZEC.">> >>

\* the books of the table that occur in the lower-cased reference
KnownBooks(ls) == {k \in 1..Len(abbreviations_v3) : Contains(ls, abbreviations_v3[k][1])}

\* where a match of (\d+)[:\s]+(\d+) that starts at position i ends; 0 when
\* there is none
ChapterVerseEnd(s, i) ==
    IF /\ RunEnd(s, i, IsDigit) >= i
       /\ RunEnd(s, RunEnd(s, i, IsDigit) + 1, IsSep) > RunEnd(s, i, IsDigit)
       /\ IsDigit(CharAt(s, RunEnd(s, RunEnd(s, i, IsDigit) + 1, IsSep) + 1))
    THEN RunEnd(s, RunEnd(s, RunEnd(s, i, IsDigit) + 1, IsSep) + 1, IsDigit)
    ELSE 0

\* "chapter:verse" of the match of (\d+)[:\s]+(\d+) that starts at position i
ChapterVerseAt(s, i) ==
    SubSeq(s, i, RunEnd(s, i, IsDigit)) \o ":"
    \o SubSeq(s, RunEnd(s, RunEnd(s, i, IsDigit) + 1, IsSep) + 1, ChapterVerseEnd(s, i))

\* the starts of the matches of (\d+)[:\s]+(\d+)
ChapterVerseStarts(s) == {i \in 1..Len(s) : ChapterVerseEnd(s, i) > 0}

\* the starts of the matches of ([A-Za-z]+)\s+(\d+)[:\s]+(\d+): a run of
\* letters, whitespace, then chapter and verse
BookChapterVerseStarts(s) ==
    {i \in 1..Len(s) :
        /\ IsLetter(CharAt(s, i))
        /\ RunEnd(s, RunEnd(s, i, IsLetter) + 1, IsSpace) > RunEnd(s, i, IsLetter)
        /\ ChapterVerseEnd(s, RunEnd(s, RunEnd(s, i, IsLetter) + 1, IsSpace) + 1) > 0}

\* the second attempt of the formatter: the first three letters of the book
AnyBookReference(s, i) ==
    Slice(Upper(SubSeq(s, i, RunEnd(s, i, IsLetter))), 0, 3) \o ". "
    \o ChapterVerseAt(s, RunEnd(s, RunEnd(s, i, IsLetter) + 1, IsSpace) + 1)

\* format_scripture_reference of app_v3_ai.py
format_scripture_reference_v3(scripture) ==
    IF scripture = "" THEN ""
    ELSE IF KnownBooks(Lower(scripture)) # {} /\ ChapterVerseStarts(scripture) # {}
    THEN abbreviations_v3[Min(KnownBooks(Lower(scripture)))][2] \o " "
         \o ChapterVerseAt(scripture, Min(ChapterVerseStarts(scripture)))
    ELSE IF BookChapterVerseStarts(scripture) # {}
    THEN AnyBookReference(scripture, Min(BookChapterVerseStarts(scripture)))
    ELSE Slice(Upper(scripture), 0, 50)

\* str.replace(old, new)
Replace(s, old, new) == Join(new, Split(s, old))

\* the prayer the outer loop is at
GenPrayer == gen_prayers[gen_i]

\* every slide of a prayer carries the scripture
SlideAlwaysWithScripture(header, slide_text, scripture) ==
    Join("\n", <<header, "", slide_text>> \o (IF scripture # "" THEN <<"", scripture>> ELSE <<>>))

\* the slide without its scripture
SlideBare(header, slide_text, scripture) == Join("\n", <<header, "", slide_text>>)

\* '\n'.join(slide_parts) of app_v2.py for the last slide of a prayer
SlideWithScripture(header, slide_text, scripture) ==
    Join("\n", <<header, "", slide_text>> \o (IF scripture # "" THEN <<"", scripture>> ELSE <<>>))

\* the scripture slide of app_v3_ai.py
ScriptureSlide(prayer) ==
    Join("\n", << "SCRIPTURE " \o prayer.number,
                  "",
                  Upper(format_scripture_reference_v3(prayer.scripture)),
                  "",
                  "(FOR PRAYER " \o prayer.number \o ")" >>)

\* an iteration of the outer loop starts: the header and the prayer's slides
GenFormat ==
    /\ gen_pc = "prayer"
    /\ gen_i <= Len(gen_prayers)
    /\ prayer_slides' = format_slide_text(GenPrayer.prayer)
    /\ slide_k' = 0
    /\ gen_pc' = "slides"
    /\ UNCHANGED <<gen_others, gen_version, include_prayer_number, separate_scripture,
                   gen_prayers, gen_i, gen_slides, gen_info, formatted_slides,
                   easyworship_format>>

\* an iteration of the inner loop: one slide of the prayer; app_v2.py puts
\* the scripture on the last one
GenSlide ==
    /\ gen_pc = "slides"
    /\ slide_k < Len(prayer_slides)
    /\ gen_slides' = Append(gen_slides,
          IF gen_version = "v2" /\ slide_k = Len(prayer_slides) - 1
          THEN SlideWithScripture(Header(GenPrayer, include_prayer_number),
                                  prayer_slides[slide_k + 1], GenPrayer.scripture)
          ELSE SlideBare(Header(GenPrayer, include_prayer_number),
                         prayer_slides[slide_k + 1], GenPrayer.scripture))
    /\ gen_info' = Append(gen_info, [prayer |-> gen_i, kind |-> "prayer"])
    /\ slide_k' = slide_k + 1
    /\ UNCHANGED <<gen_others, gen_version, include_prayer_number, separate_scripture,
                   gen_prayers, gen_pc, gen_i, prayer_slides, formatted_slides,
                   easyworship_format>>

\* the slides of the prayer are made and nothing follows them
GenNextPrayer ==
    /\ gen_pc = "slides"
    /\ slide_k = Len(prayer_slides)
    /\ gen_version = "v2" \/ GenPrayer.scripture = ""
    /\ gen_i' = gen_i + 1
    /\ gen_pc' = "prayer"
    /\ UNCHANGED <<gen_others, gen_version, include_prayer_number, separate_scripture,
                   gen_prayers, prayer_slides, slide_k, gen_slides, gen_info,
                   formatted_slides, easyworship_format>>

\* app_v3_ai.py, separate_scripture: a scripture slide follows the prayer's slides
GenScriptureSlide ==
    /\ gen_pc = "slides"
    /\ slide_k = Len(prayer_slides)
    /\ gen_version = "v3" /\ separate_scripture /\ GenPrayer.scripture # ""
    /\ gen_slides' = Append(gen_slides, ScriptureSlide(GenPrayer))
    /\ gen_info' = Append(gen_info, [prayer |-> gen_i, kind |-> "scripture"])
    /\ gen_i' = gen_i + 1
    /\ gen_pc' = "prayer"
    /\ UNCHANGED <<gen_others, gen_version, include_prayer_number, separate_scripture,
                   gen_prayers, prayer_slides, slide_k, formatted_slides,
                   easyworship_format>>

\* app_v3_ai.py, not separate_scripture: the reference is added to the last slide
GenScriptureOnLast ==
    /\ gen_pc = "slides"
    /\ slide_k = Len(prayer_slides)
    /\ gen_version = "v3" /\ ~separate_scripture /\ GenPrayer.scripture # ""
    /\ gen_slides' =
          IF gen_slides = <<>> THEN gen_slides
          ELSE [gen_slides EXCEPT ![Len(gen_slides)] =
                   @ \o "\n\n" \o format_scripture_reference_v3(GenPrayer.scripture)]
    /\ gen_i' = gen_i + 1
    /\ gen_pc' = "prayer"
    /\ UNCHANGED <<gen_others, gen_version, include_prayer_number, separate_scripture,
                   gen_prayers, prayer_slides, slide_k, gen_info, formatted_slides,
                   easyworship_format>>

\* return '\n\n---\n\n'.join(all_slides)
GenReturn ==
    /\ gen_pc = "prayer"
    /\ gen_i > Len(gen_prayers)
    /\ formatted_slides' = Join("\n\n---\n\n", gen_slides)
    /\ gen_pc' = "download"
    /\ UNCHANGED <<gen_others, gen_version, include_prayer_number, separate_scripture,
                   gen_prayers, gen_i, prayer_slides, slide_k, gen_slides, gen_info,
                   easyworship_format>>

\* the EasyWorship download: formatted_slides.replace('---', '')
Download ==
    /\ gen_pc = "download"
    /\ easyworship_format' = Replace(formatted_slides, "---", "")
    /\ gen_pc' = "done"
    /\ UNCHANGED <<gen_others, gen_version, include_prayer_number, separate_scripture,
                   gen_prayers, gen_i, prayer_slides, slide_k, gen_slides, gen_info,
                   formatted_slides>>

InitGen ==
    /\ SegIdle
    /\ AppIdle
    /\ ChunkIdle
    /\ CleanIdle
    /\ LateIdle
    /\ gen_version \in {"v2", "v3"}
    /\ include_prayer_number \in BOOLEAN
    /\ separate_scripture \in (IF gen_version = "v3" THEN BOOLEAN ELSE {FALSE})
    /\ \E ps \in GenPrayerLists : gen_prayers = Numbered(ps)
    /\ gen_pc = "prayer"
    /\ gen_i = 1
    /\ prayer_slides = <<>>
    /\ slide_k = 0
    /\ gen_slides = <<>>
    /\ gen_info = <<>>
    /\ formatted_slides = ""
    /\ easyworship_format = ""

NextGen ==
    \/ GenFormat
    \/ GenSlide
    \/ GenNextPrayer
    \/ GenScriptureSlide
    \/ GenScriptureOnLast
    \/ GenReturn
    \/ Download

SpecGen == InitGen /\ [][NextGen]_vars

(***************************************************************************)
(* parse_scripture_reference (bible_fetcher.py) and                         *)
(* format_scripture_reference (app_v2.py) on one citation.                  *)
(***************************************************************************)

\* the citations: a book, a chapter, one of the ways of writing the verse,
\* with or without a closing verse
RefBooks == {"Isaiah", "Psalm", "1 John", "Jn", "John"}

RefSeparators == {":", " ", " verse ", " and verse "}

RefChapters == {"9", "23"}

RefVerses == {"8", "16"}

RefRanges == {"", "-18"}

Cite(book, chapter, sep, verse, range) == book \o " " \o chapter \o sep \o verse \o range

\* test_refs of the module's self-test
test_refs == {"John 4:36", "Psalm 118:23", "Habakkuk 3:2", "Ezekiel 34:25"}

References ==
    {Cite(b, c, sep, v, r) : b \in RefBooks, c \in RefChapters, sep \in RefSeparators,
                             v \in RefVerses, r \in RefRanges}
    \cup {" John 3:16 "}
    \cup test_refs
    \cup {"Psalms 23:1", "Genesis 1:1", "Rev 3:20-21"}

\* book_abbreviations, in the order the loop visits it
book_abbreviations ==
    << <<"Jn", "John">>, <<"Ps", "Psalms">>, <<"Psalm", "Psalms">>, <<"Mt", "Matthew">>,
       <<"Mk", "Mark">>, <<"Lk", "Luke">>, <<"Rom", "Romans">>, <<"Cor", "Corinthians">>,
       <<"Gal", "Galatians">>, <<"Eph", "Ephesians">>, <<"Phil", "Philippians">>,
       <<"Col", "Colossians">>, <<"Thess", "Thessalonians">>, <<"Tim", "Timothy">>,
       <<"Heb", "Hebrews">>, <<"Jas", "James">>, <<"Pet", "Peter">>, <<"Rev", "Revelation">>,
       <<"Gen", "Genesis">>, <<"Ex", "Exodus">>, <<"Lev", "Leviticus">>, <<"Num", "Numbers">>,
       <<"Deut", "Deuteronomy">>, <<"Josh", "Joshua">>, <<"Judg", "Judges">>,
       <<"Sam", "Samuel">>, <<"Kgs", "Kings">>, <<"Chr", "Chronicles">>, <<"Neh", "Nehemiah">>,
       <<"Prov", "Proverbs">>, <<"Eccl", "Ecclesiastes">>, <<"Isa", "Isaiah">>,
       <<"Jer", "Jeremiah">>, <<"Lam", "Lamentations">>, <<"Ezek", "Ezekiel">>,
       <<"Dan", "Daniel">>, <<"Hos", "Hosea">>, <<"Hab", "Habakkuk">> >>

\* \w
IsWordChar(c) == IsLetter(c) \/ IsDigit(c) \/ c = "_"

\* where \w+ may start in a match of (\d?\s*\w+) at the start of s, in the
\* order the regex tries them: after a leading digit and its whitespace, then
\* at the start
BookWordStarts(s) ==
    IF IsDigit(CharAt(s, 1)) THEN <<RunEnd(s, 2, IsSpace) + 1, 1>> ELSE <<1>>

\* the rest of the pattern once the book ends at e: \s+(\d+):(\d+)(?:-(\d+))?$
\* with the whitespace ending at g, the chapter at c1, the verse at v1
TailMatches(s, e, g, c1, v1) ==
    /\ g > e
    /\ c1 > g
    /\ CharAt(s, c1 + 1) = ":"
    /\ v1 > c1 + 1
    /\ \/ v1 = Len(s)
       \/ /\ CharAt(s, v1 + 1) = "-"
          /\ v1 + 1 < Len(s)
          /\ RunEnd(s, v1 + 2, IsDigit) = Len(s)

\* whether the pattern matches with \w+ starting at w
MatchesFrom(s, w) ==
    LET e  == RunEnd(s, w, IsWordChar)
        g  == RunEnd(s, e + 1, IsSpace)
        c1 == RunEnd(s, g + 1, IsDigit)
        v1 == RunEnd(s, c1 + 2, IsDigit)
    IN  e >= w /\ TailMatches(s, e, g, c1, v1)

\* the start of \w+ in the match re.match returns, 0 when there is no match
MatchedWordStart(s) ==
    LET ws   == BookWordStarts(s)
        hits == {k \in 1..Len(ws) : MatchesFrom(s, ws[k])}
    IN  IF hits = {} THEN 0 ELSE ws[Min(hits)]

\* the loop over book_abbreviations: the first abbreviation the lower-cased
\* book starts with is replaced by the full name, once
ExpandAbbreviation(book) ==
    LET hits == {k \in 1..Len(book_abbreviations) :
                    StartsWith(Lower(book), Lower(book_abbreviations[k][1]))}
    IN  IF hits = {} THEN book
        ELSE book_abbreviations[Min(hits)][2]
             \o SubSeq(Lower(book), Len(book_abbreviations[Min(hits)][1]) + 1, Len(book))

\* str.title(): a letter that follows a letter is lower-cased, any other
\* letter is upper-cased
Title(s) ==
    LET ch(k) == IF k > 1 /\ IsLetter(CharAt(s, k - 1)) THEN LowerChar(CharAt(s, k))
                 ELSE UpperChar(CharAt(s, k))
    IN  Join("", [k \in 1..Len(s) |-> ch(k)])

\* None, the value the parser returns for a reference it does not match
NoReference == <<>>

\* the dict the parser returns
ParsedReference(book, chapter, verse_start, verse_end) ==
    [book |-> book,
     chapter |-> chapter,
     verse_start |-> verse_start,
     verse_end |-> verse_end,
     full_reference |-> book \o " " \o chapter \o ":" \o verse_start
                        \o (IF verse_end # PyNone THEN "-" \o verse_end ELSE "")]

\* the groups of the match whose book ends at e, whitespace at g, chapter
\* at c1 and verse at v1; group 4 is None without a closing verse
ParsedFrom(s, e, g, c1, v1) ==
    ParsedReference(Title(ExpandAbbreviation(Strip(SubSeq(s, 1, e)))),
                    SubSeq(s, g + 1, c1),
                    SubSeq(s, c1 + 2, v1),
                    IF v1 = Len(s) THEN PyNone ELSE SubSeq(s, v1 + 2, Len(s)))

\* the parser on a stripped reference
ParseStripped(s) ==
    LET w  == MatchedWordStart(s)
        e  == RunEnd(s, w, IsWordChar)
        g  == RunEnd(s, e + 1, IsSpace)
        c1 == RunEnd(s, g + 1, IsDigit)
        v1 == RunEnd(s, c1 + 2, IsDigit)
    IN  IF w = 0 THEN NoReference ELSE ParsedFrom(s, e, g, c1, v1)

parse_scripture_reference(ref) == ParseStripped(Strip(ref))

\* parse_scripture_reference runs on the citation
ParseReference ==
    /\ parse_pc = "call"
    /\ parsed' = parse_scripture_reference(reference)
    /\ parse_pc' = "returned"
    /\ UNCHANGED <<ref_others, reference, reparsed, format_pc, formatted>>

\* parse_scripture_reference runs on the canonical form of the reference it
\* returned
ReparseReference ==
    /\ parse_pc = "returned"
    /\ Truthy(parsed)
    /\ reparsed' = parse_scripture_reference(parsed.full_reference)
    /\ parse_pc' = "reparsed"
    /\ UNCHANGED <<ref_others, reference, parsed, format_pc, formatted>>

\* format_scripture_reference of app_v2.py runs on the citation
FormatReference ==
    /\ format_pc = "call"
    /\ formatted' = format_scripture_reference(reference)
    /\ format_pc' = "returned"
    /\ UNCHANGED <<ref_others, reference, parse_pc, parsed, reparsed>>

InitRef ==
    /\ SegIdle
    /\ AppIdle
    /\ ChunkIdle
    /\ CleanIdle
    /\ GenIdle
    /\ DetectIdle
    /\ LastIdle
    /\ reference \in References
    /\ parse_pc = "call"
    /\ parsed = <<>>
    /\ reparsed = <<>>
    /\ format_pc = "call"
    /\ formatted = ""

NextRef ==
    \/ ParseReference
    \/ ReparseReference
    \/ FormatReference

SpecRef == InitRef /\ [][NextRef]_vars

(***************************************************************************)
(* PrayerDetector.detect_prayers_regex (prayer_detector.py).  The patterns  *)
(* run on text_normalized, where every whitespace is a single space, so     *)
(* `\s+` matches exactly one space and `\s*` at most one.  All patterns     *)
(* ignore case: literals are looked for in the lower-cased text.            *)
(***************************************************************************)

\* head\s+(?:we\s+)?(?:v1|v2|...): with "we" first, the verbs in their order
WithWe(head, verbs) ==
    [k \in 1..(2 * Len(verbs)) |->
        IF k <= Len(verbs) THEN head \o " we " \o verbs[k]
        ELSE head \o " " \o verbs[k - Len(verbs)]]

\* prayer_starters: for each pattern the texts it matches, lower-cased, in
\* the order the regex tries them
prayer_starters ==
    << WithWe("father", <<"thank", "praise", "ask", "pray", "silence", "gather", "bless", "let">>),
       WithWe("lord", <<"thank", "praise", "ask", "pray", "come">>),
       <<"dear god", "dear lord", "dear father">>,
       <<"heavenly father">>,
       <<"let us pray">>,
       <<"prayer point :", "prayer point:">>,
       <<"personal supplication">>,
       <<"in jesus name">>,
       <<"we thank you", "we praise you", "we worship you">> >>

\* the length of the first of the literals that occurs in ls at position i;
\* 0 when none does
LiteralLenAt(ls, literals, i) ==
    LET hits == {k \in 1..Len(literals) : OccursAt(literals[k], ls, i)}
    IN  IF hits = {} THEN 0 ELSE Len(literals[Min(hits)])

\* the end of \d+[\s:]+(?:verse\s+)?\d+ whose chapter starts at d0; 0 when
\* it does not match there
ChapterAndVerseEnd(s, ls, d0) ==
    LET c1 == RunEnd(s, d0, IsDigit)
        g  == RunEnd(s, c1 + 1, IsSep)
        v0 == IF OccursAt("verse ", ls, g + 1) THEN g + 7 ELSE g + 1
        v1 == RunEnd(s, v0, IsDigit)
    IN  IF c1 >= d0 /\ g > c1 /\ v1 >= v0 THEN v1 ELSE 0

\* the end of [A-Z][a-z]+\s+(?:chapter\s+)?\d+[\s:]+(?:verse\s+)?\d+ whose
\* letters start at p: two letters or more up to the end of their word, one
\* space, then chapter and verse
BookCitationEnd(s, ls, p) ==
    LET e == RunEnd(s, p, IsLetter)
    IN  IF e >= p + 1 /\ CharAt(s, e + 1) = " "
        THEN ChapterAndVerseEnd(s, ls, IF OccursAt("chapter ", ls, e + 2) THEN e + 10 ELSE e + 2)
        ELSE 0

\* (?:First|Second|Third|1st|2nd|3rd|I|II|III)? in the order the regex tries
\* the alternatives, the empty one last
ordinals == <<"first", "second", "third", "1st", "2nd", "3rd", "i", "ii", "iii", "">>

\* the end of the match of the first scripture pattern that starts at i with
\* the given ordinal and with or without a space after it
OrdinalCitationEnd(s, ls, i, ordinal, space) ==
    IF /\ OccursAt(ordinal, ls, i)
       /\ space = 1 => CharAt(s, i + Len(ordinal)) = " "
    THEN BookCitationEnd(s, ls, i + Len(ordinal) + space)
    ELSE 0

\* the end of the match of the first scripture pattern at i: the first
\* choice of ordinal and space that matches, the space taken first
FullScriptureEnd(s, ls, i) ==
    LET tries == [n \in 1..(2 * Len(ordinals)) |->
                     OrdinalCitationEnd(s, ls, i, ordinals[(n + 1) \div 2], n % 2)]
        hits  == {n \in 1..(2 * Len(ordinals)) : tries[n] > 0}
    IN  IF hits = {} THEN 0 ELSE tries[Min(hits)]

\* the end of the match of [A-Z][a-z]+\s+\d+:\d+ at i
SimpleScriptureEnd(s, i) ==
    LET e  == RunEnd(s, i, IsLetter)
        c1 == RunEnd(s, e + 2, IsDigit)
        v1 == RunEnd(s, c1 + 2, IsDigit)
    IN  IF /\ e >= i + 1 /\ CharAt(s, e + 1) = " "
           /\ c1 >= e + 2 /\ CharAt(s, c1 + 1) = ":"
           /\ v1 >= c1 + 2
        THEN v1 ELSE 0

\* the end of [^"]+\d+.*?"? when [^"]+ starts at q: the greedy [^"]+ stops
\* before the last digit of the run of non-quote characters, the lazy .*?
\* takes nothing, and a quote that follows is taken
QuotedBodyEnd(s, q) ==
    LET r  == RunEnd(s, q, NotQuote)
        ds == {d \in (q + 1)..r : IsDigit(CharAt(s, d))}
    IN  IF ds = {} THEN 0
        ELSE IF CharAt(s, Max(ds) + 1) = "\"" THEN Max(ds) + 1 ELSE Max(ds)

\* the end of the match of Scripture\s*:\s*"?[^"]+\d+.*?"? at i: after the
\* colon at position c the regex first takes the space and the quote, then
\* gives the space back to [^"]+
MarkedBodyEnd(s, c) ==
    LET q0    == IF CharAt(s, c + 1) = " " THEN c + 2 ELSE c + 1
        q     == IF CharAt(s, q0) = "\"" THEN q0 + 1 ELSE q0
        first == QuotedBodyEnd(s, q)
    IN  IF first > 0 THEN first
        ELSE IF q = q0 /\ q0 = c + 2 THEN QuotedBodyEnd(s, c + 1)
        ELSE 0

MarkedScriptureEnd(s, ls, i) ==
    IF ~OccursAt("scripture", ls, i) THEN 0
    ELSE IF CharAt(s, i + 9) = ":" THEN MarkedBodyEnd(s, i + 9)
    ELSE IF CharAt(s, i + 9) = " " /\ CharAt(s, i + 10) = ":" THEN MarkedBodyEnd(s, i + 10)
    ELSE 0

\* the end of the match of Prayer\s+\d+: at i
NumberedPrayerEnd(s, ls, i) ==
    IF /\ OccursAt("prayer ", ls, i)
       /\ RunEnd(s, i + 7, IsDigit) >= i + 7
       /\ CharAt(s, RunEnd(s, i + 7, IsDigit) + 1) = ":"
    THEN RunEnd(s, i + 7, IsDigit) + 1
    ELSE 0

\* scripture_patterns: the end of the match of pattern k at i, 0 for none
ScriptureEndAt(s, ls, k, i) ==
    IF k = 1 THEN FullScriptureEnd(s, ls, i)
    ELSE IF k = 2 THEN SimpleScriptureEnd(s, i)
    ELSE MarkedScriptureEnd(s, ls, i)

\* end_patterns: the nine starters, the three scripture patterns, \n\n,
\* Prayer\s+\d+: and Amen; the end of the match of pattern k at i, 0 for none
EndPatternEndAt(s, ls, k, i) ==
    IF k <= 9
    THEN IF LiteralLenAt(ls, prayer_starters[k], i) > 0
         THEN i + LiteralLenAt(ls, prayer_starters[k], i) - 1 ELSE 0
    ELSE IF k <= 12 THEN ScriptureEndAt(s, ls, k - 9, i)
    ELSE IF k = 13 THEN (IF OccursAt("\n\n", s, i) THEN i + 1 ELSE 0)
    ELSE IF k = 14 THEN NumberedPrayerEnd(s, ls, i)
    ELSE IF OccursAt("amen", ls, i) THEN i + 3 ELSE 0

\* re.search / the next match of re.finditer: the leftmost position at or
\* after from where end pattern k matches, 0 when there is none
SearchPattern(s, ls, k, from) ==
    LET hits == {i \in from..Len(s) : EndPatternEndAt(s, ls, k, i) > 0}
    IN  IF hits = {} THEN 0 ELSE Min(hits)

\* the for loop over end_patterns for a match that ends at position m (the
\* text has Len(s) characters): the first pattern in the list that matches
\* after m sets end and breaks, whatever matches the later patterns have
FirstEndPattern(s, ls, m) == Min({k \in 1..15 : SearchPattern(s, ls, k, m + 1) > 0} \cup {16})

EndBefore(s, ls, m, k) == IF k = 16 THEN Len(s) ELSE SearchPattern(s, ls, k, m + 1) - 1

PrayerEnd(s, ls, m) == EndBefore(s, ls, m, FirstEndPattern(s, ls, m))

\* biblical_books, lower-cased
biblical_books ==
    { "genesis", "exodus", "leviticus", "numbers", "deuteronomy", "joshua", "judges", "ruth",
      "samuel", "kings", "chronicles", "ezra", "nehemiah", "esther", "job", "psalm", "psalms",
      "proverbs", "ecclesiastes", "song", "isaiah", "jeremiah", "lamentations", "ezekiel",
      "daniel", "hosea", "joel", "amos", "obadiah", "jonah", "micah", "nahum", "habakkuk",
      "zephaniah", "haggai", "zechariah", "malachi", "matthew", "mark", "luke", "john", "acts",
      "romans", "corinthians", "galatians", "ephesians", "philippians", "colossians",
      "thessalonians", "timothy", "titus", "philemon", "hebrews", "james", "peter", "jude",
      "revelation", "revelations" }

\* has_book or 'Scripture:' in scripture_text
IsValidScripture(scripture_text) ==
    \/ \E book \in biblical_books : Contains(Lower(scripture_text), book)
    \/ Contains(scripture_text, "Scripture:")

\* re.search(r'"([^"]+)"', window): where the leftmost quoted text starts in
\* positions from..to of s, 0 when there is none
QuoteStart(s, from, to) ==
    LET hits == {a \in from..to :
                    /\ CharAt(s, a) = "\""
                    /\ RunEnd(s, a + 1, NotQuote) >= a + 1
                    /\ RunEnd(s, a + 1, NotQuote) + 1 <= to
                    /\ CharAt(s, RunEnd(s, a + 1, NotQuote) + 1) = "\""}
    IN  IF hits = {} THEN 0 ELSE Min(hits)

\* scripture_text of the match at positions i..e, with the quoted text found
\* in the 500 characters after it
ScriptureText(s, i, e, a) ==
    IF a = 0 THEN SubSeq(s, i, e)
    ELSE SubSeq(s, i, e) \o " \"" \o SubSeq(s, a + 1, RunEnd(s, a + 1, NotQuote)) \o "\""

Item(type, content, start_pos) == [type |-> type, content |-> content, start_pos |-> start_pos]

\* results.sort(key=start_pos): a stable sort, items of equal position keep
\* their order
RECURSIVE SortedByStart(_)
SortedByStart(items) ==
    IF Len(items) <= 1 THEN items
    ELSE LET rest  == SortedByStart(SubSeq(items, 1, Len(items) - 1))
             x     == items[Len(items)]
             after == {k \in 1..Len(rest) : rest[k].start_pos > x.start_pos}
             cut   == IF after = {} THEN Len(rest) + 1 ELSE Min(after)
         IN  SubSeq(rest, 1, cut - 1) \o <<x>> \o SubSeq(rest, cut, Len(rest))

\* the prayer a match of a starter at positions i..m gives: the text up to
\* the end the end_patterns loop finds, stripped
PrayerText(s, ls, i, m) == Strip(SubSeq(s, i, PrayerEnd(s, ls, m)))

\* len(prayer_text) > 20
IsSubstantial(prayer_text) == Len(prayer_text) > 20

\* results after the match of a starter at positions i..m
WithPrayer(res, prayer_text, i) ==
    IF IsSubstantial(prayer_text) THEN Append(res, Item("prayer", prayer_text, i - 1)) ELSE res

\* results after the match of a scripture pattern at positions i..e of s
WithScripture(res, s, i, e) ==
    IF IsValidScripture(SubSeq(s, i, e))
    THEN Append(res, Item("scripture", ScriptureText(s, i, e, QuoteStart(s, e + 1, e + 500)), i - 1))
    ELSE res

\* MaxDetectParts pieces at most make a text
MaxDetectParts == 2

\* what the texts handed to the detector are made of
DetectVocab ==
    << "Heavenly Father we thank you for this day",
       "Father we thank you for the blood of Jesus",
       "Lord we praise your holy name forever",
       "Let us pray",
       "Amen",
       "John 3:16 \"For God so loved the world\"",
       "Isaiah chapter 9 verse 8",
       "Scripture: \"Psalm 23:1\"",
       "and keep us all in peace",
       "Prayer 2: bless this house today" >>

DetectTextsOf(n) == {Join(". ", [k \in 1..n |-> DetectVocab[c[k]]]) : c \in [1..n -> 1..Len(DetectVocab)]}

DetectTexts ==
    UNION {DetectTextsOf(n) : n \in 1..MaxDetectParts}
    \cup {"Heavenly  Father\nwe thank you   for this day"}

\* text_normalized = re.sub(r'\s+', ' ', text)
DetectNormalize ==
    /\ detect_pc = "call"
    /\ text_normalized' = CollapseSpaces(detect_text)
    /\ detect_pc' = "prayers"
    /\ pattern_i' = 1
    /\ scan_from' = 0
    /\ UNCHANGED <<detect_others, detect_text, results, group_i, current, grouped>>

\* the next match of the starter the outer loop is at: its prayer is added
\* when it is substantial
DetectPrayer ==
    /\ detect_pc = "prayers"
    /\ \E ls \in {Lower(text_normalized)} :
       \E i \in {SearchPattern(text_normalized, ls, pattern_i, scan_from + 1)} :
       \E m \in {EndPatternEndAt(text_normalized, ls, pattern_i, i)} :
          /\ i > 0
          /\ results' = WithPrayer(results, PrayerText(text_normalized, ls, i, m), i)
          /\ scan_from' = m
    /\ UNCHANGED <<detect_others, detect_text, text_normalized, detect_pc, pattern_i, group_i,
                   current, grouped>>

\* the starter has no further match: the next starter, or the scripture loop
DetectNextStarter ==
    /\ detect_pc = "prayers"
    /\ SearchPattern(text_normalized, Lower(text_normalized), pattern_i, scan_from + 1) = 0
    /\ pattern_i' = IF pattern_i < 9 THEN pattern_i + 1 ELSE 1
    /\ detect_pc' = IF pattern_i < 9 THEN "prayers" ELSE "scriptures"
    /\ scan_from' = 0
    /\ UNCHANGED <<detect_others, detect_text, text_normalized, results, group_i, current,
                   grouped>>

\* the next match of the scripture pattern the loop is at: added when it
\* names a book or holds 'Scripture:'
DetectScripture ==
    /\ detect_pc = "scriptures"
    /\ \E ls \in {Lower(text_normalized)} :
       \E i \in {SearchPattern(text_normalized, ls, 9 + pattern_i, scan_from + 1)} :
       \E e \in {EndPatternEndAt(text_normalized, ls, 9 + pattern_i, i)} :
          /\ i > 0
          /\ results' = WithScripture(results, text_normalized, i, e)
          /\ scan_from' = e
    /\ UNCHANGED <<detect_others, detect_text, text_normalized, detect_pc, pattern_i, group_i,
                   current, grouped>>

\* the scripture pattern has no further match: the next pattern, or the
\* results are sorted by position and the grouping loop starts
DetectNextScripture ==
    /\ detect_pc = "scriptures"
    /\ SearchPattern(text_normalized, Lower(text_normalized), 9 + pattern_i, scan_from + 1) = 0
    /\ pattern_i' = IF pattern_i < 3 THEN pattern_i + 1 ELSE 0
    /\ detect_pc' = IF pattern_i < 3 THEN "scriptures" ELSE "group"
    /\ results' = IF pattern_i < 3 THEN results ELSE SortedByStart(results)
    /\ scan_from' = 0
    /\ UNCHANGED <<detect_others, detect_text, text_normalized, group_i, current, grouped>>

\* the grouping loop takes a prayer: the prayer before it is closed
GroupPrayer ==
    /\ detect_pc = "group"
    /\ group_i < Len(results)
    /\ results[group_i + 1].type = "prayer"
    /\ grouped' = IF Truthy(current) THEN Append(grouped, current) ELSE grouped
    /\ current' = [prayer |-> results[group_i + 1].content, scripture |-> PyNone]
    /\ group_i' = group_i + 1
    /\ UNCHANGED <<detect_others, detect_text, text_normalized, detect_pc, pattern_i, scan_from,
                   results>>

\* the grouping loop takes a scripture: it goes to the open prayer, if any
GroupScripture ==
    /\ detect_pc = "group"
    /\ group_i < Len(results)
    /\ results[group_i + 1].type = "scripture"
    /\ current' = IF Truthy(current)
                  THEN [current EXCEPT !.scripture = results[group_i + 1].content]
                  ELSE current
    /\ group_i' = group_i + 1
    /\ UNCHANGED <<detect_others, detect_text, text_normalized, detect_pc, pattern_i, scan_from,
                   results, grouped>>

\* the last prayer is closed and grouped is returned
GroupReturn ==
    /\ detect_pc = "group"
    /\ group_i = Len(results)
    /\ grouped' = IF Truthy(current) THEN Append(grouped, current) ELSE grouped
    /\ detect_pc' = "done"
    /\ UNCHANGED <<detect_others, detect_text, text_normalized, pattern_i, scan_from, results,
                   group_i, current>>

InitDetect ==
    /\ SegIdle
    /\ AppIdle
    /\ ChunkIdle
    /\ CleanIdle
    /\ GenIdle
    /\ RefIdle
    /\ LastIdle
    /\ detect_text \in DetectTexts
    /\ text_normalized = ""
    /\ detect_pc = "call"
    /\ pattern_i = 0
    /\ scan_from = 0
    /\ results = <<>>
    /\ group_i = 0
    /\ current = <<>>
    /\ grouped = <<>>

NextDetect ==
    \/ DetectNormalize
    \/ DetectPrayer
    \/ DetectNextStarter
    \/ DetectScripture
    \/ DetectNextScripture
    \/ GroupPrayer
    \/ GroupScripture
    \/ GroupReturn

SpecDetect == InitDetect /\ [][NextDetect]_vars

(***************************************************************************)
(* extract_video_id of apps/prayer_slides/app.py and of app_v2.py (the     *)
(* function of app_v3_ai.py is the same as app_v2.py's).                   *)
(***************************************************************************)

\* the 11 characters of an identifier, a short one and a long one
VideoIds == {"dQw4w9WgXcQ", "abc123", "dQw4w9WgXcQ_extra"}

UrlHeads ==
    { "https://www.youtube.com/watch?v=",
      "https://youtu.be/",
      "https://www.youtube.com/embed/",
      "https://www.youtube.com/live/",
      "https://www.youtube.com/watch?feature=share&v=",
      "https://www.youtube.com/playlist?list=",
      "https://example.com/",
      "" }

UrlTails == {"", "&t=10s", "?t=5", "#t=30", "/videos"}

\* test_urls of test_app.py, and the URLs built around an identifier
VideoUrls ==
    {h \o v \o t : h \in UrlHeads, v \in VideoIds, t \in UrlTails} \cup {"invalid_url"}

\* [0-9A-Za-z_-]
IsIdChar(c) == IsLetter(c) \/ IsDigit(c) \/ c \in {"_", "-"}

\* ([0-9A-Za-z_-]{11}) matches at position g
ElevenIdChars(s, g) == g + 10 <= Len(s) /\ \A j \in g..(g + 10) : IsIdChar(CharAt(s, j))

\* patterns of apps/prayer_slides/app.py: the alternatives of the non-capturing
\* group of each pattern, in order; the group of 11 characters follows
slides_patterns == << <<"v=", "/">>, <<"embed/">>, <<"watch?v=">>, <<"youtu.be/">> >>

\* where group 1 starts when the pattern with alternatives alts matches at
\* position i, 0 when it does not match there
SlidesGroupAt(s, alts, i) ==
    IF \E a \in 1..Len(alts) : OccursAt(alts[a], s, i) /\ ElevenIdChars(s, i + Len(alts[a]))
    THEN i + Len(alts[Min({a \in 1..Len(alts) :
                             OccursAt(alts[a], s, i) /\ ElevenIdChars(s, i + Len(alts[a]))})])
    ELSE 0

\* re.search: group 1 of the leftmost match, 0 when there is none
SlidesSearch(s, alts) ==
    IF \E i \in 1..Len(s) : SlidesGroupAt(s, alts, i) > 0
    THEN SlidesGroupAt(s, alts, Min({i \in 1..Len(s) : SlidesGroupAt(s, alts, i) > 0}))
    ELSE 0

\* extract_video_id of apps/prayer_slides/app.py
extract_video_id_slides(u) ==
    IF \E k \in 1..Len(slides_patterns) : SlidesSearch(u, slides_patterns[k]) > 0
    THEN SubSeq(u, SlidesSearch(u, slides_patterns[Min({k \in 1..Len(slides_patterns) :
                                       SlidesSearch(u, slides_patterns[k]) > 0})]),
                   SlidesSearch(u, slides_patterns[Min({k \in 1..Len(slides_patterns) :
                                       SlidesSearch(u, slides_patterns[k]) > 0})]) + 10)
    ELSE PyNone

\* [^&\n?]
IsIdPart(c) == c # "" /\ c \notin {"&", "\n", "?"}

\* the alternatives of the first pattern of app_v2.py
v2_shapes == <<"youtube.com/watch?v=", "youtu.be/", "youtube.com/embed/", "youtube.com/live/">>

\* where group 1 starts when one of the shapes, followed by [^&\n?]+, matches
\* at position i; 0 when none does
ShapeGroupAt(s, shapes, i) ==
    IF \E a \in 1..Len(shapes) : OccursAt(shapes[a], s, i) /\ IsIdPart(CharAt(s, i + Len(shapes[a])))
    THEN i + Len(shapes[Min({a \in 1..Len(shapes) :
                               OccursAt(shapes[a], s, i) /\ IsIdPart(CharAt(s, i + Len(shapes[a])))})])
    ELSE 0

\* youtube\.com\/watch\?.*v=([^&\n?]+) at position i: the greedy .* stops at
\* the last v= of the line that a character of the group follows
QueryGroupAt(s, i) ==
    LET after == i + Len("youtube.com/watch?")
        vs == {j \in after..Len(s) :
                  /\ OccursAt("v=", s, j)
                  /\ IsIdPart(CharAt(s, j + 2))
                  /\ \A k \in after..(j - 1) : CharAt(s, k) # "\n"}
    IN  IF OccursAt("youtube.com/watch?", s, i) /\ vs # {} THEN Max(vs) + 2 ELSE 0

\* where group 1 starts when pattern k of app_v2.py matches at position i
V2GroupAt(s, k, i) ==
    IF k = 1 THEN ShapeGroupAt(s, v2_shapes, i)
    ELSE IF k = 2 THEN QueryGroupAt(s, i)
    ELSE ShapeGroupAt(s, <<"youtube.com/live/">>, i)

\* re.search with pattern k: group 1 of the leftmost match, 0 for none
V2Search(s, k) ==
    IF \E i \in 1..Len(s) : V2GroupAt(s, k, i) > 0
    THEN V2GroupAt(s, k, Min({i \in 1..Len(s) : V2GroupAt(s, k, i) > 0}))
    ELSE 0

\* the text of group 1: the longest run of [^&\n?] from position g
V2Group(s, g) == SubSeq(s, g, RunEnd(s, g, IsIdPart))

\* extract_video_id of app_v2.py and app_v3_ai.py
extract_video_id(u) ==
    IF \E k \in 1..3 : V2Search(u, k) > 0
    THEN V2Group(u, V2Search(u, Min({k \in 1..3 : V2Search(u, k) > 0})))
    ELSE PyNone

\* apps/prayer_slides/app.py: extract_video_id(url)
ExtractVideoIdSlides ==
    /\ vid_pc = "call"
    /\ vid_slides' = extract_video_id_slides(vid_url)
    /\ vid_pc' = "slides"
    /\ UNCHANGED <<vid_others, vid_url, vid_v2>>

\* app_v2.py: extract_video_id(url), on the same URL
ExtractVideoIdV2 ==
    /\ vid_pc = "slides"
    /\ vid_v2' = extract_video_id(vid_url)
    /\ vid_pc' = "done"
    /\ UNCHANGED <<vid_others, vid_url, vid_slides>>

InitVid ==
    /\ SegIdle
    /\ AppIdle
    /\ ChunkIdle
    /\ CleanIdle
    /\ GenIdle
    /\ RefIdle
    /\ DetectIdle
    /\ AiIdle
    /\ AuthIdle
    /\ ExpIdle
    /\ vid_url \in VideoUrls
    /\ vid_pc = "call"
    /\ vid_slides = PyNone
    /\ vid_v2 = PyNone

NextVid ==
    \/ ExtractVideoIdSlides
    \/ ExtractVideoIdV2

SpecVid == InitVid /\ [][NextVid]_vars

(***************************************************************************)
(* The assisted strategy: extract_prayers_with_ai of src/prayer_extractor  *)
(* and its call site in app.py, extract_prayers_with_ai of app_v3_ai.py    *)
(* and its call site, detect_prayers_openai of prayer_detector.py.  The    *)
(* completion service is outside the program: each call either fails or    *)
(* answers with one of the texts of Contents, whatever the prompt.         *)
(***************************************************************************)

\* the prayer objects the service lists: with the keys of the prompt of
\* prayer_extractor.py (text) and of app_v3_ai.py (prayer), with a scripture,
\* with an empty one, with null and with none
Prayer1 == [number |-> "1", text |-> "Father, thank you for this day", scripture |-> "Acts 14:17"]

Prayer2 == [number |-> "2", prayer |-> "Father, perfect the health of every winner", scripture |-> "Acts 3:16"]

Prayer3 == [number |-> "3", text |-> "Father, gather the multitudes", scripture |-> ""]

Prayer4 == [number |-> "4", text |-> "Lord, heal the land", scripture |-> PyNone]

Prayer5 == [number |-> "5", text |-> "Father, open the heavens"]

PrayerDicts == {Prayer1, Prayer2, Prayer3, Prayer4, Prayer5}

\* the lists of prayer objects a response holds
AiLists == {<<>>, <<Prayer1>>, <<Prayer2>>, <<Prayer1, Prayer3>>, <<Prayer4, Prayer5>>}

\* a parsed JSON document: a list of objects or one object
JsonList(items) == [type |-> "list", items |-> items]

JsonDict(fields) == [type |-> "dict", fields |-> fields]

\* the documents of the model: a list of prayers, an object holding the list
\* under "prayers", a single prayer object
JsonValues ==
    {JsonList(l) : l \in AiLists} \cup {JsonDict([prayers |-> l]) : l \in AiLists}
        \cup {JsonDict(p) : p \in {Prayer1, Prayer2}}

\* the order in which an object lists its keys
json_keys == <<"number", "text", "prayer", "scripture">>

\* the JSON text of a string or of null
DumpsScalar(v) == IF v = PyNone THEN "null" ELSE "\"" \o v \o "\""

\* the keys of the object d, in the order they are listed
KeysOf(d) ==
    LET Has(k) == k \in DOMAIN d
    IN  SelectSeq(json_keys, Has)

\* the JSON text of a prayer object
DumpsDict(d) ==
    "{" \o Join(", ", [i \in 1..Len(KeysOf(d)) |->
                          "\"" \o KeysOf(d)[i] \o "\": " \o DumpsScalar(d[KeysOf(d)[i]])])
        \o "}"

\* the JSON text of a list of prayer objects
DumpsList(l) == "[" \o Join(", ", [i \in 1..Len(l) |-> DumpsDict(l[i])]) \o "]"

\* the JSON text of a document
Dumps(v) ==
    IF v.type = "list" THEN DumpsList(v.items)
    ELSE IF "prayers" \in DOMAIN v.fields THEN "{\"prayers\": " \o DumpsList(v.fields.prayers) \o "}"
    ELSE DumpsDict(v.fields)

\* the texts json.loads accepts: the JSON text of a document
IsJson(t) == \E v \in JsonValues : Dumps(v) = t

\* json.loads on a text it accepts: the document the text encodes
Loads(t) == CHOOSE v \in JsonValues : Dumps(v) = t

\* answers that are not JSON
PlainAnswers ==
    { "Father, thank you for this day\nLord hear us\n  Father, gather the multitudes ",
      "I could not find any prayers.",
      "" }

\* the markdown fence: three backquotes, written with the character ~, which
\* no text of the model holds otherwise (a string of this language holds no
\* backquote)
Fence == "~~~"

JsonFence == Fence \o "json"

\* the ways the service wraps its JSON: bare, in a json fence, in a plain
\* fence, in a fence after a sentence
Wrapped(body) ==
    { body,
      JsonFence \o "\n" \o body \o "\n" \o Fence,
      Fence \o "\n" \o body \o "\n" \o Fence,
      "Here are the prayers:\n" \o JsonFence \o "\n" \o body \o "\n" \o Fence }

\* response.choices[0].message.content
Contents == UNION {Wrapped(Dumps(v)) : v \in JsonValues} \cup PlainAnswers

\* the exceptions the completion call raises
ServiceErrors == {"RateLimitError", "AuthenticationError"}

\* the outcomes of one completion call
Answer(content) == [ok |-> TRUE, content |-> content, error |-> ""]

Failure(error) == [ok |-> FALSE, content |-> "", error |-> error]

Completions == {Answer(c) : c \in Contents} \cup {Failure(e) : e \in ServiceErrors}

NoCompletion == [ok |-> FALSE, content |-> "", error |-> "not called"]

\* how a call ended: with a returned list, or with an exception
Returned(value) == [kind |-> "returned", value |-> value, error |-> ""]

Raised(error) == [kind |-> "raised", value |-> <<>>, error |-> error]

NoResult == [kind |-> "none", value |-> <<>>, error |-> ""]

\* prayer_extractor.py: the content without its markdown fence, stripped
UnfencedStart(content) == IF StartsWith(content, JsonFence) THEN Slice(content, 7, Len(content)) ELSE content

UnfencedRest(content) == IF StartsWith(content, Fence) THEN Slice(content, 3, Len(content)) ELSE content

UnfencedEnd(content) == IF EndsWith(content, Fence) THEN Slice(content, 0, Len(content) - 3) ELSE content

Unfenced(content) == Strip(UnfencedEnd(UnfencedRest(UnfencedStart(content))))

\* prayer_extractor.py: what the function does with the document json.loads
\* returned
PrayersOf(result) ==
    IF result.type = "dict" /\ "prayers" \in DOMAIN result.fields THEN result.fields.prayers
    ELSE IF result.type = "list" THEN result.items
    ELSE <<>>

\* prayer_extractor.py: the try block after the completion returned content
ExtractorOutcome(content) ==
    IF IsJson(Unfenced(content)) THEN Returned(PrayersOf(Loads(Unfenced(content))))
    ELSE Raised("JSONDecodeError")

\* app_v3_ai.py: transcript_data, the segments with their start times
Segment(t, start) == [text |-> t, start |-> start]

AiTranscripts ==
    { <<>>,
      <<Segment("Let us pray", 0), Segment("Father, thank you for this day", 4),
        Segment("in Jesus name", 400)>>,
      <<Segment("Father, thank you", 0), Segment("Father, heal the land", 30),
        Segment("Father, gather us", 60), Segment("Amen", 90)>>,
      <<Segment("Our Father in heaven", 0), Segment("Welcome everyone", 200),
        Segment("We thank the Lord", 500)>>,
      <<Segment("Welcome everyone", 0)>> }

\* the transcript texts the strategies are called on
AiTexts ==
    { "Welcome everyone. Father we thank you for this day. Amen.",
      "Heavenly Father we thank you for this day. John 3:16 \"For God so loved the world\"",
      "Welcome everyone." }

\* prayer_markers of app_v3_ai.py
prayer_markers == <<"prayer point", "prayer item", "prayer number", "let us lift", "let us pray">>

HasMarker(t) == \E k \in 1..Len(prayer_markers) : Contains(Lower(t), prayer_markers[k])

\* the texts of the segments from i on that start within 300 seconds of
\* segment i, up to the first one that starts later (100 segments at most)
WindowEnd(data, i) ==
    Min({j \in i..Min({i + 99, Len(data)}) : data[j].start > data[i].start + 300}
            \cup {Min({i + 99, Len(data)}) + 1}) - 1

PrayerSection(data, i) == [j \in 1..(WindowEnd(data, i) - i + 1) |-> data[i + j - 1].text]

\* prayer_segments: one joined section per segment that holds a marker
PrayerSegments(data) ==
    LET marked == {i \in 1..Len(data) : HasMarker(data[i].text)}
        At(n) == CHOOSE i \in marked : Cardinality({j \in marked : j < i}) = n - 1
    IN  [n \in 1..Cardinality(marked) |-> Join(" ", PrayerSection(data, At(n)))]

\* the test of the cluster loop on the text of a segment
OpensCluster(t) == StartsWith(Strip(t), "Father") \/ Contains(Slice(Lower(t), 0, 20), "father")

\* cluster_texts: the texts of the segments from ten before to twenty-nine
\* after segment i that start within 120 seconds of it
ClusterTexts(data, i) ==
    LET near == {j \in Max({1, i - 10})..Min({i + 29, Len(data)}) :
                    data[j].start - data[i].start <= 120 /\ data[i].start - data[j].start <= 120}
        At(n) == CHOOSE j \in near : Cardinality({k \in near : k < j}) = n - 1
    IN  [n \in 1..Cardinality(near) |-> data[At(n)].text]

\* father_clusters: one joined cluster per segment that opens one of four
\* texts or more
FatherClusters(data) ==
    LET opening == {i \in 1..Len(data) :
                       OpensCluster(data[i].text) /\ Len(ClusterTexts(data, i)) >= 4}
        At(n) == CHOOSE i \in opening : Cardinality({j \in opening : j < i}) = n - 1
    IN  [n \in 1..Cardinality(opening) |-> Join(" ", ClusterTexts(data, At(n)))]

\* prayer_keywords of app_v3_ai.py, the alternatives between \b and \b
v3_keywords ==
    <<"pray", "prayer", "father", "lord", "in jesus name", "let us pray", "we ask", "we declare",
      "amen">>

\* re.search(prayer_keywords, t, re.IGNORECASE)
HasKeyword(t) ==
    \E k \in 1..Len(v3_keywords) : \E i \in 1..Len(t) :
        /\ OccursAt(v3_keywords[k], Lower(t), i)
        /\ ~IsWordChar(CharAt(t, i - 1))
        /\ ~IsWordChar(CharAt(t, i + Len(v3_keywords[k])))

\* the items of a list that hold a keyword, in order
WithKeyword(texts) == SelectSeq(texts, HasKeyword)

\* re.split(r'(?<=[.!?])\s+', t): the pieces between the runs of whitespace
\* that follow a . ! or ?
RECURSIVE SplitSentences(_, _)
SplitSentences(t, from) ==
    LET cuts == {i \in (from + 1)..Len(t) : IsSpace(CharAt(t, i)) /\ IsStop(CharAt(t, i - 1))}
    IN  IF cuts = {} THEN <<SubSeq(t, from, Len(t))>>
        ELSE <<SubSeq(t, from, Min(cuts) - 1)>>
                 \o SplitSentences(t, RunEnd(t, Min(cuts), IsSpace) + 1)

\* the texts of the segments
SegmentTextsOf(data) == [i \in 1..Len(data) |-> data[i].text]

\* relevant_text of the timestamped path, before the keyword search
ClusterText(data) == Join(" ", PrayerSegments(data) \o FatherClusters(data))

\* relevant_text[:max_chars]
Limited(t) == IF Len(t) > 12000 THEN Slice(t, 0, 12000) ELSE t

\* relevant_text as the completion is asked
RelevantText(t, data) ==
    Limited(IF Len(data) > 0
            THEN (IF ClusterText(data) # "" THEN ClusterText(data)
                  ELSE Join(" ", WithKeyword(SegmentTextsOf(data))))
            ELSE (IF Len(WithKeyword(SplitSentences(t, 1))) > 0
                  THEN Join(" ", WithKeyword(SplitSentences(t, 1)))
                  ELSE t))

\* whether the name prayer_sentences is bound when the response is handled:
\* the timestamped path assigns it only in its keyword search
SentencesBound(data) == Len(data) = 0 \/ ClusterText(data) = ""

\* app_v3_ai.py: the text between the first fence and the next one, stripped
V3Unfenced(response_text) ==
    Strip(IF Contains(response_text, JsonFence)
          THEN Split(Split(response_text, JsonFence)[2], Fence)[1]
          ELSE IF Contains(response_text, Fence)
          THEN Split(Split(response_text, Fence)[2], Fence)[1]
          ELSE response_text)

\* app_v3_ai.py: the list made of the document json.loads returned
V3PrayersOf(document) == IF document.type = "dict" THEN <<document.fields>> ELSE document.items

\* app_v3_ai.py: the fallback prayers of the lines that hold 'Father'
RECURSIVE FallbackPrayers(_, _)
FallbackPrayers(lines, found) ==
    IF Len(lines) = 0 THEN found
    ELSE FallbackPrayers(Tail(lines),
            IF Contains(Head(lines), "Father")
            THEN Append(found, [number |-> ToString(Len(found) + 1),
                                prayer |-> Strip(Head(lines)), scripture |-> ""])
            ELSE found)

\* fallback_prayers[:4]
FirstFour(l) == SubSeq(l, 1, Min({4, Len(l)}))

\* app_v3_ai.py: the inner try block and its except clause
V3Outcome(response_text) ==
    IF IsJson(V3Unfenced(response_text))
    THEN Returned(V3PrayersOf(Loads(V3Unfenced(response_text))))
    ELSE Returned(FirstFour(FallbackPrayers(Split(V3Unfenced(response_text), "\n"), <<>>)))

\* where (?:\.[^.]+){0,3} ends after position e, n groups taken so far
RECURSIVE FatherGroupsEnd(_, _, _)
FatherGroupsEnd(s, e, n) ==
    IF n = 3 \/ CharAt(s, e + 1) # "." \/ e + 2 > Len(s) \/ CharAt(s, e + 2) = "."
    THEN e
    ELSE FatherGroupsEnd(s, NextChar(s, e + 2, ".") - 1, n + 1)

\* re.findall(r'(?i)(father[^.]+(?:\.[^.]+){0,3})', s) from position from on
RECURSIVE FatherFindAll(_, _, _)
FatherFindAll(s, from, found) ==
    LET starts == {f \in from..Len(s) :
                      /\ OccursAt("father", Lower(s), f)
                      /\ f + 6 <= Len(s)
                      /\ CharAt(s, f + 6) # "."}
    IN  IF starts = {} THEN found
        ELSE FatherFindAll(s, FatherGroupsEnd(s, NextChar(s, Min(starts) + 6, ".") - 1, 0) + 1,
                 Append(found, SubSeq(s, Min(starts),
                                      FatherGroupsEnd(s, NextChar(s, Min(starts) + 6, ".") - 1, 0))))

\* app_v3_ai.py: the prayers of the regex extraction of the call site, from
\* the first ten matches
RegexPrayers(father_matches) ==
    [i \in 1..Min({10, Len(father_matches)}) |->
        [number |-> ToString(i), prayer |-> Strip(father_matches[i]), scripture |-> ""]]

\* app.py: the AI method is chosen and no key was given
AppNoKey ==
    /\ ai_fn = "app"
    /\ ai_pc = "call"
    /\ ai_key = ""
    /\ ai_error' = "Please provide an OpenAI API key"
    /\ ai_pc' = "done"
    /\ UNCHANGED <<ai_others, ai_fn, ai_method, ai_key, ai_text, ai_data, relevant_text,
                   sentences_bound, completion, ai_result, ai_prayers>>

\* prayer_extractor.py: client.chat.completions.create
ExtractorComplete ==
    /\ ai_fn = "app"
    /\ ai_pc = "call"
    /\ ai_key # ""
    /\ \E c \in Completions : completion' = c
    /\ ai_pc' = "completed"
    /\ UNCHANGED <<ai_others, ai_fn, ai_method, ai_key, ai_text, ai_data, relevant_text,
                   sentences_bound, ai_result, ai_prayers, ai_error>>

\* prayer_extractor.py: the content is unfenced and parsed; a text that is
\* not JSON raises JSONDecodeError, which the except clause raises again
ExtractorParse ==
    /\ ai_fn = "app"
    /\ ai_pc = "completed"
    /\ completion.ok
    /\ ai_result' = ExtractorOutcome(completion.content)
    /\ ai_pc' = "ended"
    /\ UNCHANGED <<ai_others, ai_fn, ai_method, ai_key, ai_text, ai_data, relevant_text,
                   sentences_bound, completion, ai_prayers, ai_error>>

\* prayer_extractor.py: the completion call raised; except Exception raises
\* it again
ExtractorReraise ==
    /\ ai_fn = "app"
    /\ ai_pc = "completed"
    /\ ~completion.ok
    /\ ai_result' = Raised(completion.error)
    /\ ai_pc' = "ended"
    /\ UNCHANGED <<ai_others, ai_fn, ai_method, ai_key, ai_text, ai_data, relevant_text,
                   sentences_bound, completion, ai_prayers, ai_error>>

\* app.py: the try statement around the call of extract_prayers_with_ai
AppCallSite ==
    /\ ai_fn = "app"
    /\ ai_pc = "ended"
    /\ ai_prayers' = IF ai_result.kind = "raised" THEN <<>> ELSE ai_result.value
    /\ ai_error' = IF ai_result.kind = "raised" THEN "Error: " \o ai_result.error ELSE ""
    /\ ai_pc' = "done"
    /\ UNCHANGED <<ai_others, ai_fn, ai_method, ai_key, ai_text, ai_data, relevant_text,
                   sentences_bound, completion, ai_result>>

\* app_v3_ai.py: the AI method is chosen and no key was given
V3NoKey ==
    /\ ai_fn = "v3"
    /\ ai_pc = "call"
    /\ ai_key = "" /\ ai_method = "AI (Recommended)"
    /\ ai_error' = "Please enter your OpenAI API key in the sidebar"
    /\ ai_pc' = "done"
    /\ UNCHANGED <<ai_others, ai_fn, ai_method, ai_key, ai_text, ai_data, relevant_text,
                   sentences_bound, completion, ai_result, ai_prayers>>

\* app_v3_ai.py: the regex extraction of the call site, taken when the AI
\* method is not chosen
V3RegexExtraction ==
    /\ ai_fn = "v3"
    /\ ai_pc = "call"
    /\ ai_method # "AI (Recommended)"
    /\ ai_prayers' = RegexPrayers(FatherFindAll(ai_text, 1, <<>>))
    /\ ai_pc' = "done"
    /\ UNCHANGED <<ai_others, ai_fn, ai_method, ai_key, ai_text, ai_data, relevant_text,
                   sentences_bound, completion, ai_result, ai_error>>

\* app_v3_ai.py: extract_prayers_with_ai selects the text it sends
V3Select ==
    /\ ai_fn = "v3"
    /\ ai_pc = "call"
    /\ ai_key # "" /\ ai_method = "AI (Recommended)"
    /\ relevant_text' = RelevantText(ai_text, ai_data)
    /\ sentences_bound' = SentencesBound(ai_data)
    /\ ai_pc' = "selected"
    /\ UNCHANGED <<ai_others, ai_fn, ai_method, ai_key, ai_text, ai_data, completion, ai_result,
                   ai_prayers, ai_error>>

\* app_v3_ai.py: openai.ChatCompletion.create
V3Complete ==
    /\ ai_fn = "v3"
    /\ ai_pc = "selected"
    /\ \E c \in Completions : completion' = c
    /\ ai_pc' = "completed"
    /\ UNCHANGED <<ai_others, ai_fn, ai_method, ai_key, ai_text, ai_data, relevant_text,
                   sentences_bound, ai_result, ai_prayers, ai_error>>

\* app_v3_ai.py: the completion call raised; the outer except clause shows
\* the error and returns []
V3Failed ==
    /\ ai_fn = "v3"
    /\ ai_pc = "completed"
    /\ ~completion.ok
    /\ ai_result' = Returned(<<>>)
    /\ ai_error' = "AI extraction error: " \o completion.error
    /\ ai_pc' = "ended"
    /\ UNCHANGED <<ai_others, ai_fn, ai_method, ai_key, ai_text, ai_data, relevant_text,
                   sentences_bound, completion, ai_prayers>>

\* app_v3_ai.py: the debug expander reads len(prayer_sentences) while the
\* name is not bound; UnboundLocalError is none of the exceptions of the inner
\* except clause, the outer one shows the error and returns []
V3Unbound ==
    /\ ai_fn = "v3"
    /\ ai_pc = "completed"
    /\ completion.ok
    /\ ~sentences_bound
    /\ ai_result' = Returned(<<>>)
    /\ ai_error' = "AI extraction error: UnboundLocalError"
    /\ ai_pc' = "ended"
    /\ UNCHANGED <<ai_others, ai_fn, ai_method, ai_key, ai_text, ai_data, relevant_text,
                   sentences_bound, completion, ai_prayers>>

\* app_v3_ai.py: the response is unfenced and parsed; a text that is not JSON
\* is scanned for the lines that hold 'Father'
V3Parse ==
    /\ ai_fn = "v3"
    /\ ai_pc = "completed"
    /\ completion.ok
    /\ sentences_bound
    /\ ai_result' = V3Outcome(completion.content)
    /\ ai_pc' = "ended"
    /\ UNCHANGED <<ai_others, ai_fn, ai_method, ai_key, ai_text, ai_data, relevant_text,
                   sentences_bound, completion, ai_prayers, ai_error>>

\* app_v3_ai.py: prayers = extract_prayers_with_ai(...)
V3CallSite ==
    /\ ai_fn = "v3"
    /\ ai_pc = "ended"
    /\ ai_prayers' = ai_result.value
    /\ ai_pc' = "done"
    /\ UNCHANGED <<ai_others, ai_fn, ai_method, ai_key, ai_text, ai_data, relevant_text,
                   sentences_bound, completion, ai_result, ai_error>>

\* prayer_detector.py: detect_prayers_openai without a key raises ValueError
DetectOpenaiNoKey ==
    /\ ai_fn = "detector"
    /\ ai_pc = "call"
    /\ ai_key = ""
    /\ ai_result' = Raised("ValueError")
    /\ ai_pc' = "done"
    /\ UNCHANGED <<ai_others, ai_fn, ai_method, ai_key, ai_text, ai_data, relevant_text,
                   sentences_bound, completion, ai_prayers, ai_error>>

\* prayer_detector.py: the prompt template holds the braces of its JSON
\* example, so str.format raises KeyError inside the try block, before the
\* completion is called; the except clause calls detect_prayers_regex on the
\* same text
DetectOpenaiFallback ==
    /\ ai_fn = "detector"
    /\ ai_pc = "call"
    /\ ai_key # ""
    /\ detect_text' = ai_text
    /\ detect_pc' = "call"
    /\ ai_pc' = "regex"
    /\ UNCHANGED <<seg_vars, app_vars, chunk_vars, clean_vars, gen_vars, ref_vars, vid_vars,
                   auth_vars, exp_vars, text_normalized, pattern_i, scan_from, results, group_i, current, grouped,
                   ai_fn, ai_method, ai_key, ai_text, ai_data, relevant_text, sentences_bound,
                   completion, ai_result, ai_prayers, ai_error>>

\* prayer_detector.py: detect_prayers_regex returned, its result is returned
DetectOpenaiReturn ==
    /\ ai_fn = "detector"
    /\ ai_pc = "regex"
    /\ detect_pc = "done"
    /\ ai_result' = Returned(grouped)
    /\ ai_pc' = "done"
    /\ UNCHANGED <<ai_others, ai_fn, ai_method, ai_key, ai_text, ai_data, relevant_text,
                   sentences_bound, completion, ai_prayers, ai_error>>

InitAi ==
    /\ SegIdle
    /\ AppIdle
    /\ ChunkIdle
    /\ CleanIdle
    /\ GenIdle
    /\ RefIdle
    /\ DetectIdle
    /\ VidIdle
    /\ AuthIdle
    /\ ExpIdle
    /\ ai_fn \in {"app", "v3", "detector"}
    /\ ai_key \in {"", "sk-test"}
    /\ ai_text \in AiTexts
    /\ ai_method \in (IF ai_fn = "v3" THEN {"AI (Recommended)", "Regex (Fallback)"} ELSE {"AI (OpenAI)"})
    /\ ai_data \in (IF ai_fn = "v3" THEN AiTranscripts ELSE {<<>>})
    /\ ai_pc = "call"
    /\ relevant_text = ""
    /\ sentences_bound = FALSE
    /\ completion = NoCompletion
    /\ ai_result = NoResult
    /\ ai_prayers = <<>>
    /\ ai_error = ""

(***************************************************************************)
(* app.py after the extraction: the verse fetch loop and the builder of    *)
(* the export text, run when the list of prayers is not empty.             *)
(***************************************************************************)

\* dict.get(key, default)
PyGet(d, key, default) == IF key \in DOMAIN d THEN d[key] ELSE default

\* the truth value of dict.get(key)
PyHas(d, key) == key \in DOMAIN d /\ d[key] \notin {PyNone, ""}

\* fetch_verse: what it can return for a reference, by the answer of the API
VerseResults ==
    { [error |-> "API error: 404", text |-> PyNone],
      [error |-> PyNone, text |-> "he left not himself without witness"] }

\* the prayers the loop calls fetch_verse for
ScriptureIndices(document) == {i \in 1..Len(document) : PyHas(document[i], "scripture")}

\* the body of the verse fetch loop for one prayer
VerseFetched(prayer, verse_result) ==
    IF verse_result.error = PyNone
    THEN [verse_text |-> verse_result.text, verse_source |-> "Bible API"] @@ prayer
    ELSE prayer

\* "=" * 50
Rule == "=================================================="

\* the builder stops at a prayer whose text or scripture is None: None has
\* no method upper
CannotUpper(prayer) ==
    PyGet(prayer, "text", "") = PyNone \/ PyGet(prayer, "scripture", "") = PyNone

\* the prayer slide of prayer i
PrayerSlideText(prayer, i) ==
    "PRAYER " \o Str(i) \o "\n" \o Rule \o "\n"
    \o Upper(PyGet(prayer, "text", "")) \o "\n\n"
    \o Upper(PyGet(prayer, "scripture", "")) \o "\n"
    \o "\n" \o Rule \o "\n\n"

\* the scripture slide of prayer i
ScriptureSlideText(prayer, i) ==
    IF PyHas(prayer, "scripture") /\ PyHas(prayer, "verse_text")
    THEN "SCRIPTURE " \o Str(i) \o "\n" \o Rule \o "\n"
         \o Upper(PyGet(prayer, "scripture", "")) \o " (KJV)\n\n"
         \o Upper(PyGet(prayer, "verse_text", "")) \o "\n"
         \o "\n" \o Rule \o "\n\n"
    ELSE ""

RECURSIVE ExportFrom(_, _)
\* the export text of the prayers from i on, when none of them stops the builder
ExportFrom(document, i) ==
    IF i > Len(document) THEN ""
    ELSE PrayerSlideText(document[i], i) \o ScriptureSlideText(document[i], i)
         \o ExportFrom(document, i + 1)

\* the verse fetch loop
AppFetchVerses ==
    /\ ai_fn = "app"
    /\ ai_pc = "done"
    /\ ai_prayers # <<>>
    /\ \E verse_results \in [ScriptureIndices(ai_prayers) -> VerseResults] :
          ai_prayers' = [i \in 1..Len(ai_prayers) |->
                            IF i \in ScriptureIndices(ai_prayers)
                            THEN VerseFetched(ai_prayers[i], verse_results[i])
                            ELSE ai_prayers[i]]
    /\ ai_pc' = "fetched"
    /\ UNCHANGED <<exp_others, exp_vars, ai_fn, ai_method, ai_key, ai_text, ai_data,
                   relevant_text, sentences_bound, completion, ai_result, ai_error>>

\* the builder of the export text; an AttributeError is caught nowhere and
\* ends the run of the page before the download button
AppExport ==
    /\ ai_fn = "app"
    /\ ai_pc = "fetched"
    /\ IF \E i \in 1..Len(ai_prayers) : CannotUpper(ai_prayers[i])
       THEN /\ export_error' = "AttributeError"
            /\ export_text' = ""
            /\ ai_pc' = "aborted"
       ELSE /\ export_error' = ""
            /\ export_text' = ExportFrom(ai_prayers, 1)
            /\ ai_pc' = "exported"
    /\ UNCHANGED <<exp_others, ai_fn, ai_method, ai_key, ai_text, ai_data, relevant_text,
                   sentences_bound, completion, ai_result, ai_prayers, ai_error>>

NextAi ==
    \/ AppNoKey
    \/ ExtractorComplete
    \/ ExtractorParse
    \/ ExtractorReraise
    \/ AppCallSite
    \/ AppFetchVerses
    \/ AppExport
    \/ V3NoKey
    \/ V3RegexExtraction
    \/ V3Select
    \/ V3Complete
    \/ V3Failed
    \/ V3Unbound
    \/ V3Parse
    \/ V3CallSite
    \/ DetectOpenaiNoKey
    \/ DetectOpenaiFallback
    \/ DetectOpenaiReturn
    \/ NextDetect

SpecAi == InitAi /\ [][NextAi]_vars

(***************************************************************************)
(* The login gate: check_password, password_entered and logout of          *)
(* src/auth.py, called at the top of app.py on every run of the page.      *)
(* st.session_state is a function from the keys it holds to their values.  *)
(***************************************************************************)

\* what users type into the two fields of the form
Usernames == {"admin", "pastor", ""}

Passwords == {"sanctum2025", "letmein", "wrong"}

\* hashlib.sha256(password.encode()).hexdigest() of the passwords of the model
hash_password(password) ==
    CASE password = "sanctum2025" -> "bf92913c7cf4e9bb77ebe87ade453168ea17bc14ed65fb6c4e822c06c76a6229"
      [] password = "letmein" -> "1c8bfe8f801d79745c4631d09fff36c82aa37fc4cce4fc946683d7b336b63032"
      [] password = "wrong" -> "8810ad581e59f2bc3928b261707a71308f7e139eb04820366dc4d5c18d980225"
      [] password = "" -> "e3b0c44298fc1c149afbf4c8996fb92427ae41e4649b934ca495991b7852b855"

\* the environment: APP_USERNAME and APP_PASSWORD_HASH, PyNone when not set
AuthEnvs ==
    [APP_USERNAME : {PyNone, "pastor"},
     APP_PASSWORD_HASH : {PyNone, "", hash_password("letmein")}]

\* os.getenv("APP_USERNAME", "admin")
ValidUsername(env) == IF env.APP_USERNAME = PyNone THEN "admin" ELSE env.APP_USERNAME

\* os.getenv("APP_PASSWORD_HASH", ""), and the default hash when it is empty
ValidPasswordHash(env) ==
    IF env.APP_PASSWORD_HASH \in {PyNone, ""} THEN hash_password("sanctum2025")
    ELSE env.APP_PASSWORD_HASH

\* st.session_state[key] = value
SessionSet(ss, key, value) == [k \in DOMAIN ss \cup {key} |-> IF k = key THEN value ELSE ss[k]]

\* del st.session_state[key]
SessionDel(ss, key) == [k \in DOMAIN ss \ {key} |-> ss[k]]

\* a widget with a key puts its value under the key when the key is not held
WithWidget(ss, key) == IF key \in DOMAIN ss THEN ss ELSE SessionSet(ss, key, "")

\* the condition of password_entered under a mutation: the username alone
UsernameMatches(ss, env) == ss["username"] = ValidUsername(env)

\* the condition of password_entered
CredentialsMatch(ss, env) ==
    /\ ss["username"] = ValidUsername(env)
    /\ hash_password(ss["password"]) = ValidPasswordHash(env)

\* password_entered: the session state it leaves
password_entered(ss, env) ==
    IF CredentialsMatch(ss, env)
    THEN SessionDel(SessionDel(SessionSet(ss, "password_correct", TRUE), "password"), "username")
    ELSE SessionSet(ss, "password_correct", FALSE)

\* check_password: the value it returns
check_password(ss) == "password_correct" \in DOMAIN ss /\ ss["password_correct"]

\* check_password: what the page shows
PageShown(ss) ==
    IF "password_correct" \notin DOMAIN ss THEN "login"
    ELSE IF ~ss["password_correct"] THEN "login_error"
    ELSE "app"

\* an attempt with the valid username and a password whose hash is the
\* configured one
ValidAttempt(username, password, env) ==
    username = ValidUsername(env) /\ hash_password(password) = ValidPasswordHash(env)

\* app.py: a run of the script; check_password shows the form, whose fields
\* enter the session state, or lets the page through
PageRun ==
    /\ auth_pc = "rerun"
    /\ auth_returned' = check_password(session_state)
    /\ auth_page' = PageShown(session_state)
    /\ session_state' = IF check_password(session_state) THEN session_state
                        ELSE WithWidget(WithWidget(session_state, "username"), "password")
    /\ auth_pc' = "shown"
    /\ UNCHANGED <<auth_others, auth_env, last_auth_event>>

\* the Login button: the fields enter the session state, password_entered
\* runs as the callback, the script runs again
LoginClick ==
    /\ auth_pc = "shown"
    /\ auth_page \in {"login", "login_error"}
    /\ \E username \in Usernames : \E password \in Passwords :
       \E typed \in {SessionSet(SessionSet(session_state, "username", username),
                                "password", password)} :
          /\ session_state' = password_entered(typed, auth_env)
          /\ last_auth_event' = IF ValidAttempt(username, password, auth_env)
                                THEN "valid_login" ELSE "invalid_login"
    /\ auth_pc' = "rerun"
    /\ UNCHANGED <<auth_others, auth_env, auth_returned, auth_page>>

\* the Logout button of the sidebar: logout
LogoutClick ==
    /\ auth_pc = "shown"
    /\ auth_page = "app"
    /\ session_state' = SessionDel(session_state, "password_correct")
    /\ last_auth_event' = "logout"
    /\ auth_pc' = "rerun"
    /\ UNCHANGED <<auth_others, auth_env, auth_returned, auth_page>>

\* any other widget of the page: the script runs again
OtherClick ==
    /\ auth_pc = "shown"
    /\ auth_page = "app"
    /\ auth_pc' = "rerun"
    /\ UNCHANGED <<auth_others, auth_env, session_state, auth_returned, auth_page, last_auth_event>>

InitAuth ==
    /\ SegIdle
    /\ AppIdle
    /\ ChunkIdle
    /\ CleanIdle
    /\ GenIdle
    /\ RefIdle
    /\ DetectIdle
    /\ VidIdle
    /\ AiIdle
    /\ ExpIdle
    /\ auth_env \in AuthEnvs
    /\ session_state = <<>>
    /\ auth_pc = "rerun"
    /\ auth_returned = FALSE
    /\ auth_page = "none"
    /\ last_auth_event = "none"

NextAuth ==
    \/ PageRun
    \/ LoginClick
    \/ LogoutClick
    \/ OtherClick

SpecAuth == InitAuth /\ [][NextAuth]_vars

(***************************************************************************)
(* Properties of the heuristic segmenters.                                 *)
(***************************************************************************)

Last(seq) == seq[Len(seq)]

IsPrefixOf(a, b) == Len(a) <= Len(b) /\ SubSeq(b, 1, Len(a)) = a

\* C2: while a span is open, a scanned sentence (a trigger sentence
\* included) neither restarts the span nor discards what was accumulated:
\* the step either extends current_prayer or emits all of it together with
\* the sentence just scanned.
C2_OpenSpanIsNeverReopened ==
    [][(pc = "scan" /\ in_prayer /\ idx <= Len(sentences)) =>
          \/ in_prayer' /\ IsPrefixOf(current_prayer, current_prayer')
          \/ /\ ~in_prayer'
             /\ Len(section_spans') = Len(section_spans) + 1
             /\ Last(section_spans').hi - Last(section_spans').lo + 1 = Len(current_prayer) + 1
      ]_vars

\* C3: no sentence of the transcript is contained in two different emitted
\* prayers of extract_prayers (its keyword-context branch included).
C3_EmittedSpansAreDisjoint ==
    \A i, j \in 1..Len(section_spans) :
        i < j => \/ section_spans[i].hi < section_spans[j].lo
                 \/ section_spans[j].hi < section_spans[i].lo

\* C4: an emitted span ends with the first sentence, from its opening
\* sentence onward, that contains 'amen'.
C4_SpanClosesAtFirstAmen ==
    \A k \in 1..Len(section_spans) :
        LET span  == section_spans[k]
            amens == {j \in span.lo..Len(sentences) : HasAmen(sentences[j])}
        IN  (span.kind = "span" /\ amens # {}) => span.hi = Min(amens)

\* the non-empty sentences of an emitted span
SentenceCount(span) == Cardinality({j \in span.lo..span.hi : Strip(sentences[j]) # ""})

\* C5: no emitted prayer holds more than 15 sentences.
C5_AtMostFifteenSentences ==
    \A k \in 1..Len(section_spans) : SentenceCount(section_spans[k]) <= 15

\* the last trigger sentence of the transcript, 0 when it has none
LastTrigger ==
    LET T == {j \in 1..Len(sentences) : IsOpening(sentences[j])}
    IN  IF T = {} THEN 0 ELSE Max(T)

\* the transcript ends inside a span: no 'amen' follows its last trigger sentence
EndsInsideSpan ==
    /\ LastTrigger > 0
    /\ \A j \in (LastTrigger + 1)..Len(sentences) : ~HasAmen(sentences[j])

\* C6: when the transcript ends inside a span, the last prayer returned is
\* that span: its sentences from the opening one to the last of the input.
C6_OpenSpanIsEmittedLast ==
    (pc # "scan" /\ EndsInsideSpan) =>
        /\ prayer_sections # <<>>
        /\ Last(prayer_sections) =
              Join(". ", [k \in 1..(Len(sentences) - LastTrigger + 1) |->
                              Strip(sentences[LastTrigger + k - 1])])

\* C6 happens: a span with sentences after its opening one was still open
\* when the scan ended
C6_Witness ==
    /\ pc = "scanned"
    /\ EndsInsideSpan
    /\ LastTrigger + 1 < Len(sentences)
    /\ Len(current_prayer) > 2
    /\ prayer_sections # <<>>

\* the opening trigger phrases the claim lists
ListedTriggers ==
    << "let us pray", "father we", "father thank", "father praise", "father ask",
       "lord we", "dear god", "dear lord", "heavenly father", "prayer point" >>

HasListedTrigger(t) ==
    \E k \in 1..Len(ListedTriggers) : Contains(Lower(CollapseSpaces(t)), ListedTriggers[k])

\* C7: a transcript with none of the listed trigger phrases yields no prayer,
\* from extract_prayers and from extract_prayers_structured.
C7_NoTriggerNoPrayer ==
    (pc = "done" /\ ~HasListedTrigger(text)) => (prayer_sections = <<>> /\ prayers = <<>>)

\* C8, as claimed: on Scenario A each segmenter returns exactly one prayer
\* that starts with "Father we thank you" and ends with "Amen.", with no
\* scripture.
C8_ScenarioA_AsClaimed ==
    (pc = "done" /\ text = ScenarioA) =>
        /\ Len(prayer_sections) = 1
        /\ StartsWith(prayer_sections[1], "Father we thank you")
        /\ EndsWith(prayer_sections[1], "Amen.")
        /\ Len(prayers) = 1
        /\ StartsWith(prayers[1].prayer, "Father we thank you")
        /\ EndsWith(prayers[1].prayer, "Amen.")
        /\ prayers[1].scripture = ""

\* C8, amended: on Scenario A extract_prayers_structured returns exactly one
\* prayer, from "Father we thank you" to "Amen." with no scripture, and
\* extract_prayers returns exactly one prayer with the same text less its
\* final period (split('.') drops it).
C8_ScenarioA ==
    (pc = "done" /\ text = ScenarioA) =>
        /\ prayers = << [number    |-> "1",
                         prayer    |-> "Father we thank you for this day. We praise your holy name. In Jesus name we pray, Amen.",
                         scripture |-> ""] >>
        /\ prayer_sections =
              << "Father we thank you for this day. We praise your holy name. In Jesus name we pray, Amen" >>

\* C8 happens: both segmenters have run on Scenario A
C8_Witness == pc = "done" /\ text = ScenarioA /\ prayers # <<>> /\ prayer_sections # <<>>

\* C9: the numbers of the returned prayers are 1, 2, ..., n in list order.
C9_NumbersAreOneToN ==
    pc = "done" => \A k \in 1..Len(prayers) : prayers[k].number = Str(k)

\* the leftmost citation of s, of either form
FirstCitation(s) ==
    LET m1 == SearchSimpleCitation(s)
        m2 == SearchFullCitation(s)
    IN  IF m1 = NoMatch THEN m2
        ELSE IF m2 = NoMatch THEN m1
        ELSE IF m1.from <= m2.from THEN m1 ELSE m2

\* the scripture the claim pairs with the span from..to of t
ClaimedScripture(t, from, to) ==
    LET span   == SubSeq(t, from, to)
        rest   == SubSeq(t, to + 1, Len(t))
        inside == FirstCitation(span)
        after  == FirstCitation(rest)
    IN  IF inside # NoMatch THEN format_scripture_reference(Matched(span, inside))
        ELSE IF after # NoMatch /\ after.from <= 300
             THEN format_scripture_reference(Matched(rest, after))
        ELSE ""

\* C10: the scripture of a prayer of the "Father" fallback is the first
\* citation inside its span or, when the span has none, the first citation
\* that starts within 300 characters after the span.
C10_ScriptureIsFirstNearbyCitation ==
    \A k \in 1..Len(prayers) :
        prayer_origin[k].branch = "fallback" =>
            prayers[k].scripture = ClaimedScripture(norm, prayer_origin[k].from, prayer_origin[k].to)

(***************************************************************************)
(* Properties of the request handler.                                      *)
(***************************************************************************)

FailedMessage == Message("error", "Failed to fetch transcript")

\* C1: when the provider raised, the handler takes the 'Failed to fetch
\* transcript' branch and neither counts segments nor joins text: once past
\* the truth test it has ended with that message as the only output after the
\* video id.
C1_FailedRetrievalAborts ==
    (provider \in ProviderErrors /\ app_pc \in {"join", "crashed", "end"}) =>
        /\ app_pc = "end"
        /\ Last(messages) = FailedMessage
        /\ \A k \in 1..Len(messages) : messages[k].kind \notin {"success", "exception"}

(***************************************************************************)
(* Properties of chunk_into_slides.                                        *)
(***************************************************************************)

\* C12: a slide that holds more than one sentence is at most max_chars long.
C12_MultiSentenceSlideFitsBudget ==
    \A k \in 1..Len(all_slides) :
        Len(slide_info[k].sentences) > 1 => Len(all_slides[k]) <= max_chars

\* the sentences of prayer p as the chunker sees them: the non-empty
\* stripped pieces of text.split('. '), in order
RECURSIVE NonEmptyPieces(_, _)
NonEmptyPieces(pieces, from) ==
    IF from > Len(pieces) THEN <<>>
    ELSE IF Strip(pieces[from]) = "" THEN NonEmptyPieces(pieces, from + 1)
    ELSE <<Strip(pieces[from])>> \o NonEmptyPieces(pieces, from + 1)

InputSentences(p) == NonEmptyPieces(Split(chunk_texts[p], ". "), 1)

\* the positions in all_slides of the slides of prayer p
SlidePositions(p) == {k \in 1..Len(slide_info) : slide_info[k].prayer = p}

\* C13: a sentence longer than max_chars is emitted whole as a slide of its
\* own, and no slide of several sentences holds it.
C13_OverlongSentenceStandsAlone ==
    chunk_pc = "done" =>
        \A p \in 1..Len(chunk_texts) :
            \A j \in 1..Len(InputSentences(p)) :
                LET sentence == InputSentences(p)[j]
                IN  Len(sentence) > max_chars =>
                        /\ \E k \in SlidePositions(p) : all_slides[k] = WithPeriod(sentence)
                        /\ \A k \in SlidePositions(p) :
                              (\E i \in 1..Len(slide_info[k].sentences) :
                                    slide_info[k].sentences[i] = WithPeriod(sentence))
                              => /\ Len(slide_info[k].sentences) = 1
                                 /\ all_slides[k] = WithPeriod(sentence)

\* C13 happens: an overlong sentence with a sentence before it and one after
\* it has been chunked
C13_Witness ==
    /\ chunk_pc = "done"
    /\ Len(InputSentences(1)) = 3
    /\ Len(InputSentences(1)[1]) < max_chars
    /\ Len(InputSentences(1)[2]) > max_chars
    /\ Len(InputSentences(1)[3]) < max_chars
    /\ Len(all_slides) = 3

\* a sentence without the period that ends it
WithoutPeriod(sentence) ==
    IF EndsWith(sentence, ".") THEN SubSeq(sentence, 1, Len(sentence) - 1) ELSE sentence

\* the sentences of the slides at positions from..to, in order
RECURSIVE SlideSentences(_, _)
SlideSentences(from, to) ==
    IF from > to THEN <<>> ELSE slide_info[from].sentences \o SlideSentences(from + 1, to)

\* the sentences on the slides of prayer p, in slide order
EmittedSentences(p) ==
    IF SlidePositions(p) = {} THEN <<>>
    ELSE SlideSentences(Min(SlidePositions(p)), Max(SlidePositions(p)))

\* C14: the slides hold, in order, exactly the non-empty sentences of each
\* prayer, each slide is the join of its sentences, and the slides of one
\* prayer are consecutive and hold no sentence of another prayer.
C14_SlidesKeepSentencesInOrder ==
    chunk_pc = "done" =>
        /\ Len(all_slides) = Len(slide_info)
        /\ \A k \in 1..Len(all_slides) : all_slides[k] = Join(" ", slide_info[k].sentences)
        /\ \A k, l \in 1..Len(slide_info) : k < l => slide_info[k].prayer <= slide_info[l].prayer
        /\ \A p \in 1..Len(chunk_texts) :
              /\ Len(EmittedSentences(p)) = Len(InputSentences(p))
              /\ \A j \in 1..Len(InputSentences(p)) :
                    WithoutPeriod(EmittedSentences(p)[j]) = WithoutPeriod(InputSentences(p)[j])

\* C14 happens: two prayers whose sentences would fit one slide have been
\* chunked
C14_Witness ==
    /\ chunk_pc = "done"
    /\ Len(chunk_texts) = 2
    /\ Len(chunk_texts[1]) + Len(chunk_texts[2]) + 3 < max_chars
    /\ Len(all_slides) = 2

\* C15: whitespace after '.', '!' or '?' ends a sentence and no character is
\* added: no sentence of a slide runs over a '! ' or a '? ', and none ends
\* with a period put after its '!' or '?'.
C15_SentencesEndAtEveryStop ==
    \A k \in 1..Len(slide_info) :
        \A i \in 1..Len(slide_info[k].sentences) :
            LET sentence == slide_info[k].sentences[i]
            IN  /\ ~Contains(sentence, "! ")
                /\ ~Contains(sentence, "? ")
                /\ ~EndsWith(sentence, "!.")
                /\ ~EndsWith(sentence, "?.")

(***************************************************************************)
(* Properties of clean_text.                                               *)
(***************************************************************************)

\* C18: cleaning a cleaned text changes nothing.
C18_CleanTextIsIdempotent ==
    clean_pc = "done" => cleaned[2] = cleaned[1]

\* a non-empty run of letters
IsPlainWord(token) == token # "" /\ \A i \in 1..Len(token) : IsLetter(CharAt(token, i))

IsFiller(token) == \E k \in 1..Len(fillers) : Lower(token) = fillers[k]

\* C19: a filler is removed only as a whole word, whatever its case: every
\* word of the input that is not a filler is still in the cleaned text, and
\* no word of the cleaned text is a filler.
C19_OnlyWholeWordFillersRemoved ==
    clean_pc = "done" =>
        /\ \A k \in 1..Len(Split(clean_input, " ")) :
              LET token == Split(clean_input, " ")[k]
              IN  (IsPlainWord(token) /\ ~IsFiller(token)) => Contains(cleaned[1], token)
        /\ \A k \in 1..Len(Split(cleaned[1], " ")) : ~IsFiller(Split(cleaned[1], " ")[k])

(***************************************************************************)
(* Properties of the slide generators and of the export.                   *)
(***************************************************************************)

\* the forms in which the generators show a scripture
ReferenceForms(scripture) ==
    {scripture, format_scripture_reference_v3(scripture),
     Upper(format_scripture_reference_v3(scripture))}

\* the positions in gen_slides of the slides made for prayer p
GenPositions(p) == {k \in 1..Len(gen_info) : gen_info[k].prayer = p}

\* the lines of the slides of prayer p that show a reference of forms
LinesShowing(slide_lines, forms) == {j \in 1..Len(slide_lines) : slide_lines[j] \in forms}

ReferenceLines(p, forms) ==
    UNION {{<<k, j>> : j \in LinesShowing(Split(gen_slides[k], "\n"), forms)} : k \in GenPositions(p)}

\* every form of every scripture of the prayers
AllReferenceForms == UNION {ReferenceForms(gen_prayers[p].scripture) \ {""} : p \in 1..Len(gen_prayers)}

\* C16: the slides of a prayer with a scripture show the reference exactly
\* once, on the last of them (the scripture slide that follows them, when the
\* scripture is separate); the slides of a prayer without scripture show none.
C16_ReferenceOnceOnLastSlide ==
    gen_pc \in {"download", "done"} =>
        \A p \in 1..Len(gen_prayers) :
            IF gen_prayers[p].scripture = ""
            THEN ReferenceLines(p, AllReferenceForms) = {}
            ELSE /\ Cardinality(ReferenceLines(p, AllReferenceForms)) = 1
                 /\ \A kj \in ReferenceLines(p, ReferenceForms(gen_prayers[p].scripture)) :
                       kj[1] = Max(GenPositions(p))
                 /\ ReferenceLines(p, ReferenceForms(gen_prayers[p].scripture)) # {}

\* C16 happens: a prayer of several slides with a scripture, followed by
\* another prayer, has been generated
C16_Witness ==
    /\ gen_pc = "done"
    /\ Len(gen_prayers) = 2
    /\ gen_prayers[1].scripture # ""
    /\ Cardinality({k \in GenPositions(1) : gen_info[k].kind = "prayer"}) > 1

\* C17: the plain export is the slides joined by two newlines, and no slide
\* holds a blank line, so that splitting on blank lines gives the slides back.
C17_PlainExportIsSlidesJoinedByBlankLine ==
    gen_pc = "done" =>
        /\ easyworship_format = Join("\n\n", gen_slides)
        /\ \A k \in 1..Len(gen_slides) : ~Contains(gen_slides[k], "\n\n")


(***************************************************************************)
(* Properties of the reference parser and formatter.                       *)
(***************************************************************************)

\* C20: a citation whose verse is written after ':', after whitespace or
\* after the word 'verse' is parsed to the reference of its ':' form, and
\* "Isaiah 9 and verse 8" is parsed to book Isaiah, chapter 9, verse 8, no
\* closing verse and the canonical form "Isaiah 9:8"; the formatter gives
\* that citation the form it gives "Isaiah 9:8".
C20_VerseSeparatorsNormalizeAlike ==
    /\ parse_pc = "returned" =>
          /\ \A b \in RefBooks, c \in RefChapters, v \in RefVerses, sep \in {":", " ", " verse "} :
                reference = Cite(b, c, sep, v, "") =>
                    /\ parsed # NoReference
                    /\ parsed = parse_scripture_reference(Cite(b, c, ":", v, ""))
          /\ reference = "Isaiah 9 and verse 8" =>
                parsed = ParsedReference("Isaiah", "9", "8", PyNone)
    /\ format_pc = "returned" /\ reference = "Isaiah 9 and verse 8" =>
          formatted = format_scripture_reference("Isaiah 9:8")

(***************************************************************************)
(* Properties of detect_prayers_regex.                                     *)
(***************************************************************************)

\* where the prayer starters match in the normalized text: pattern k matches
\* at positions from..to
TriggerMatches ==
    {t \in {[k |-> k, from |-> i,
             to |-> EndPatternEndAt(text_normalized, Lower(text_normalized), k, i)] :
               k \in 1..9, i \in 1..Len(text_normalized)} :
        t.to > 0}

\* the trigger starts inside the match of a trigger that starts before it
IsContainedTrigger(t) ==
    \E u \in TriggerMatches : u.from < t.from /\ t.from <= u.to

\* the trigger is not contained in another and holds the start of another
IsContainingTrigger(t) ==
    /\ ~IsContainedTrigger(t)
    /\ \E u \in TriggerMatches : t.from < u.from /\ u.from <= t.to

\* the candidates that start at position i of the normalized text
CandidatesAt(i) ==
    {n \in 1..Len(results) : results[n].type = "prayer" /\ results[n].start_pos = i - 1}

\* C11: where a trigger holds the start of another trigger, exactly one
\* candidate starts at the containing trigger and none starts at the
\* contained one.
C11_ContainedTriggerOpensNoCandidate ==
    detect_pc = "done" =>
        \A t \in TriggerMatches :
            /\ IsContainingTrigger(t) => Cardinality(CandidatesAt(t.from)) = 1
            /\ IsContainedTrigger(t) => CandidatesAt(t.from) = {}

\* C21: parsing again the canonical form of a reference the parser returned
\* gives the same reference.
C21_CanonicalFormParsesToItself ==
    parse_pc = "reparsed" => reparsed = parsed

\* the book token of the citation: what precedes the chapter
BookToken(ref) == SubSeq(Strip(ref), 1, RunEnd(Strip(ref), MatchedWordStart(Strip(ref)), IsWordChar))

\* the full name the abbreviation table gives a token that is one of its keys
\* (keys compared without regard to case), the token itself otherwise
TableName(token) ==
    IF \E k \in 1..Len(book_abbreviations) : Lower(book_abbreviations[k][1]) = Lower(token)
    THEN book_abbreviations[Min({k \in 1..Len(book_abbreviations) :
                                    Lower(book_abbreviations[k][1]) = Lower(token)})][2]
    ELSE Title(token)

\* C22: the book of a parsed reference is the mapped full name when its book
\* token is a key of the abbreviation table, and the title-cased token
\* otherwise.
C22_BookIsMappedNameOrTitledToken ==
    (parse_pc \in {"returned", "reparsed"} /\ Truthy(parsed)) =>
        parsed.book = TableName(BookToken(reference))

\* the nearest terminator after a match that ends at m: the smallest position
\* where a prayer starter, a scripture pattern or 'Amen' begins, one past the
\* text when there is none
NearestTerminator(s, ls, m) ==
    Min(({SearchPattern(s, ls, k, m + 1) : k \in (1..12) \cup {15}} \ {0}) \cup {Len(s) + 1})

\* C30: each prayer's content ends at the nearest terminator following its
\* opening match: it is the text from the match up to the smallest position
\* after the match where a starter, a scripture pattern or 'Amen' begins.
C30_ContentEndsAtNearestTerminator ==
    \A n \in 1..Len(results) :
        results[n].type = "prayer" =>
            \E t \in TriggerMatches :
                /\ t.from = results[n].start_pos + 1
                /\ results[n].content =
                       Strip(SubSeq(text_normalized, t.from,
                                    NearestTerminator(text_normalized, Lower(text_normalized), t.to) - 1))

(***************************************************************************)
(* Properties of extract_video_id.                                         *)
(***************************************************************************)

\* the URL shapes an identifier follows
known_shapes == {"watch?v=", "youtu.be/", "embed/", "live/"}

\* v is the 11 characters that follow one of the known shapes in the URL u
IsIdAfterShape(u, v) ==
    /\ Len(v) = 11
    /\ \E shape \in known_shapes : \E i \in 1..Len(u) :
          OccursAt(shape, u, i) /\ OccursAt(v, u, i + Len(shape))

\* C23: extract_video_id returns a value other than None only for a URL that
\* holds one of the known shapes, and the value is then the 11 characters that
\* follow the shape.
C23_IdOnlyAfterKnownShape ==
    /\ (vid_pc \in {"slides", "done"} /\ vid_slides # PyNone) => IsIdAfterShape(vid_url, vid_slides)
    /\ (vid_pc = "done" /\ vid_v2 # PyNone) => IsIdAfterShape(vid_url, vid_v2)

(***************************************************************************)
(* Properties of the assisted strategy.                                    *)
(***************************************************************************)

\* the content as the running function hands it to json.loads
ParsedText ==
    IF ai_fn = "app" THEN Unfenced(completion.content) ELSE V3Unfenced(completion.content)

\* an extracting function of app.py or app_v3_ai.py ended after the service
\* answered
AnsweredCallEnded == ai_fn \in {"app", "v3"} /\ ai_pc \in {"ended", "done"} /\ completion.ok

\* C24: when the service answers with a text that is not JSON, the extracting
\* function does not raise: it returns a list of prayers, each a line of the
\* answer that holds 'Father', with no scripture.
C24_NonJsonAnswerGivesLineScan ==
    (AnsweredCallEnded /\ ~IsJson(ParsedText)) =>
        /\ ai_result.kind = "returned"
        /\ \A i \in 1..Len(ai_result.value) :
              /\ ai_result.value[i].scripture = ""
              /\ Contains(ai_result.value[i].prayer, "Father")

\* the prayers the regex extraction of the call site finds in the transcript
HeuristicPrayers == RegexPrayers(FatherFindAll(ai_text, 1, <<>>))

\* C25: when the completion call fails, the request shows no error and yields
\* the heuristic segmentation of the same transcript, not an empty list.
C25_FailedCallFallsBackToHeuristic ==
    (ai_fn \in {"app", "v3"} /\ ai_pc = "done" /\ completion.error \in ServiceErrors) =>
        /\ ai_error = ""
        /\ HeuristicPrayers # <<>> => ai_prayers # <<>>
        /\ ai_fn = "v3" => ai_prayers = HeuristicPrayers

\* C29: when the service answers with a JSON list of prayers,
\* extract_prayers_with_ai of app_v3_ai.py returns that list, on the text-only
\* path and on the timestamped path.
C29_JsonListIsReturned ==
    (ai_fn = "v3" /\ AnsweredCallEnded /\ IsJson(completion.content)
        /\ Loads(completion.content).type = "list") =>
            ai_result = Returned(Loads(completion.content).items)

(***************************************************************************)
(* C27: across page runs, login attempts and logouts of one session,       *)
(* check_password returns True only when the most recent authentication    *)
(* event was a login attempt with the valid username and a password whose  *)
(* SHA-256 hash is the configured one; after a logout or a failed attempt  *)
(* it returns False.                                                       *)
(***************************************************************************)
C27_TrueOnlyAfterValidLogin ==
    (auth_pc = "shown" /\ auth_returned) => last_auth_event = "valid_login"

\* the page went through after a login against a configured account
C27_Witness ==
    /\ auth_pc = "shown"
    /\ auth_returned
    /\ auth_page = "app"
    /\ last_auth_event = "valid_login"
    /\ auth_env.APP_USERNAME = "pastor"
    /\ auth_env.APP_PASSWORD_HASH = hash_password("letmein")

(***************************************************************************)
(* C28: after every login attempt handled by password_entered, successful  *)
(* or not, the session state holds neither the password nor the username.  *)
(***************************************************************************)
C28_CredentialsDroppedAfterAttempt ==
    (auth_pc = "rerun" /\ last_auth_event \in {"valid_login", "invalid_login"})
        => DOMAIN session_state \cap {"username", "password"} = {}

=============================================================================
